---- MODULE Spec2Model ----
(***************************************************************************)
(* mpscraper: the acquisition orchestrator (application.scrape and main),  *)
(* the login machine of the session navigator (MerPubCrawler.login_merpub  *)
(* and visit_merpub_section) and the per-listing merge into the store      *)
(* (application.parse and database.merge_agil_models_into_db).             *)
(***************************************************************************)
EXTENDS Integers, Sequences, FiniteSets, TLC

(* ---------------------------------------------------------------------- *)
(* Bounds of the model                                                     *)
(* ---------------------------------------------------------------------- *)
NumIdns == 2
MaxProviders == 2
MaxFiles == 2
MaxRows == 3
MaxLimit == 2
MaxDays == 2

Idns == 1..NumIdns
None == "None"

(* ---------------------------------------------------------------------- *)
(* mpscraper.validators. A text is a sequence of one-character strings, a  *)
(* name a sequence of words                                                *)
(* ---------------------------------------------------------------------- *)
MaxRutDigits == 7
MaxEmailLen == 4
MaxWords == 5
MaxAmountLen == 4

\* the value None where a text is expected
Absent == <<None>>

DigitSeq == <<"0", "1", "2", "3", "4", "5", "6", "7", "8", "9">>
DigitChars == {DigitSeq[i] : i \in DOMAIN DigitSeq}
\* int(c) and str(n) of one digit
DigitValue(c) == (CHOOSE i \in DOMAIN DigitSeq : DigitSeq[i] = c) - 1
DigitStr(n) == DigitSeq[n + 1]

\* what a call gives: a value returned, the sentinel False, or an exception
\* with the attributes of ValidationError
Returned(value) ==
    [kind |-> "ok", value |-> value, last |-> <<>>, parsing |-> None, reason |-> None,
     currency |-> <<>>]
ReturnedFalse ==
    [kind |-> "False", value |-> <<>>, last |-> <<>>, parsing |-> None, reason |-> None,
     currency |-> <<>>]
Raise(exception, value, parsing, reason) ==
    [kind |-> exception, value |-> value, last |-> <<>>, parsing |-> parsing,
     reason |-> reason, currency |-> <<>>]

NoRet ==
    [kind |-> None, value |-> <<>>, last |-> <<>>, parsing |-> None, reason |-> None,
     currency |-> <<>>]
NoCall ==
    [fn |-> None, arg |-> <<>>, lenient |-> FALSE, dotted |-> FALSE, currency |-> <<>>]

\* _throw_leniently
throw_leniently(leninency, value, parsing, reason) ==
    IF ~leninency THEN Raise("ValidationError", value, parsing, reason)
    ELSE ReturnedFalse

\* str.strip() and str.lower()
RECURSIVE lstrip(_)
lstrip(s) == IF s # <<>> /\ Head(s) = " " THEN lstrip(Tail(s)) ELSE s

RECURSIVE rstrip(_)
rstrip(s) ==
    IF s # <<>> /\ s[Len(s)] = " " THEN rstrip(SubSeq(s, 1, Len(s) - 1)) ELSE s

strip(s) == rstrip(lstrip(s))

LowerChar(c) ==
    CASE c = "K" -> "k" [] c = "B" -> "b"
      [] c = "U" -> "u" [] c = "S" -> "s" [] c = "D" -> "d"
      [] OTHER -> c

lower(s) == [i \in DOMAIN s |-> LowerChar(s[i])]

\* NON_DIGITS_RE.sub("", s)
OnlyDigits(s) == SelectSeq(s, LAMBDA c : c \in DigitChars)

Reverse(s) == [i \in DOMAIN s |-> s[Len(s) + 1 - i]]

\* the weights cycle over 2..6
WeightShortCycle(n) == 2 + (n % 5)
\* itertools.cycle(range(2, 8)): the weight of the digit n places above the
\* least significant one
Weight(n) == 2 + (n % 6)

\* sum of weight * digit over zip(cycle, reversed digits), n digits consumed
RECURSIVE WeightedSum(_, _)
WeightedSum(digits, n) ==
    IF digits = <<>> THEN 0
    ELSE Weight(n) * DigitValue(digits[Len(digits)])
         + WeightedSum(SubSeq(digits, 1, Len(digits) - 1), n + 1)

rut_last_digit(rut_no_last_digit) ==
    LET digit == 11 - (WeightedSum(rut_no_last_digit, 0) % 11) IN
    CASE digit = 11 -> "0"
      [] digit = 10 -> "k"
      [] OTHER -> DigitStr(digit)

\* STANDARD_IDN_RE.match: ([\d.]+)-(\d|k) at the start of the text, ignoring
\* case; group 1 is the longest prefix of digits and dots
RECURSIVE DigitsAndDotsLen(_)
DigitsAndDotsLen(s) ==
    IF s # <<>> /\ Head(s) \in DigitChars \cup {"."}
    THEN 1 + DigitsAndDotsLen(Tail(s)) ELSE 0

STANDARD_IDN_RE_match(s) ==
    LET p == DigitsAndDotsLen(s) IN
    /\ p >= 1
    /\ Len(s) >= p + 2
    /\ s[p + 1] = "-"
    /\ s[p + 2] \in DigitChars \cup {"k", "K"}

\* sep.join(chunks(s, chunk_size))
RECURSIVE JoinChunks(_, _, _)
JoinChunks(s, chunk_size, sep) ==
    IF Len(s) <= chunk_size THEN s
    ELSE SubSeq(s, 1, chunk_size) \o sep
         \o JoinChunks(SubSeq(s, chunk_size + 1, Len(s)), chunk_size, sep)

\* the digits of the body in groups of three from the right, with dots
Dotted(body) == Reverse(JoinChunks(Reverse(body), 3, <<".">>))

\* bodies shorter than this are not accepted
MinRutDigits == 6

\* the ID is returned without hyphen and check character
RutOfBodyOnly(rut, body, last_digit, lenient, dotted) ==
    IF Len(body) < MinRutDigits
    THEN throw_leniently(lenient, rut, "RUT", "demasiado corto")
    ELSE Returned(IF dotted THEN Dotted(body) ELSE body)

\* validate_rut from the length test on
RutOfBody(rut, body, last_digit, lenient, dotted) ==
    IF Len(body) < MinRutDigits
    THEN throw_leniently(lenient, rut, "RUT", "demasiado corto")
    ELSE Returned(lower((IF dotted THEN Dotted(body) ELSE body) \o <<"-", last_digit>>))

\* validate_rut on a text; body[-1] raises IndexError on a text without digit
validate_rut_str(arg, lenient, dotted) ==
    LET rut == IF arg = Absent THEN arg ELSE lower(strip(arg)) IN
    IF arg = Absent \/ rut = <<>>
    THEN throw_leniently(lenient, rut, "RUT", "esta vacio")
    ELSE IF STANDARD_IDN_RE_match(rut)
    THEN LET p == DigitsAndDotsLen(rut)
             body == OnlyDigits(SubSeq(rut, 1, p))
             last_digit == rut[p + 2]
         IN IF rut_last_digit(body) # last_digit
            THEN throw_leniently(lenient, rut, "RUT",
                                 "el digito verificador no corresponde")
            ELSE RutOfBody(rut, body, last_digit, lenient, dotted)
    ELSE LET body == OnlyDigits(rut) IN
         IF body = <<>>
         THEN Raise("IndexError", <<>>, None, None)
         ELSE LET last_digit == body[Len(body)]
                  front == SubSeq(body, 1, Len(body) - 1)
              IN IF rut_last_digit(front) = last_digit
                 THEN RutOfBody(rut, front, last_digit, lenient, dotted)
                 ELSE RutOfBody(rut, body, rut_last_digit(body), lenient, dotted)

\* EMAIL_RE: the characters of its local part and of the labels of its domain
LocalChars == {"a", "b", "B", "."}
LabelChars == {"a", "b", "B"}

\* the position of the "@" when EMAIL_RE matches the text, else 0
EMAIL_RE_match(s) ==
    LET ats == {p \in DOMAIN s : s[p] = "@"}
        Fits(p) ==
            /\ p > 1
            /\ p < Len(s)
            /\ \A i \in 1..(p - 1) : s[i] \in LocalChars
            /\ \A i \in (p + 1)..Len(s) : s[i] \in LabelChars \cup {"."}
            /\ s[p + 1] # "."
            /\ s[Len(s)] # "."
            /\ \A i \in (p + 1)..(Len(s) - 1) : ~(s[i] = "." /\ s[i + 1] = ".")
    IN IF \E p \in ats : Fits(p) THEN CHOOSE p \in ats : Fits(p) ELSE 0

\* validate_email_address: what _throw_leniently returns on an empty address
\* is dropped, and EMAIL_RE.match raises TypeError on None
validate_email_address(address, lenient) ==
    LET email_stripped == IF address = Absent THEN address ELSE strip(address)
        empty == address = Absent \/ email_stripped = <<>>
        thrown == throw_leniently(lenient, address, "correo electronico", "esta vacio")
    IN IF empty /\ thrown.kind = "ValidationError" THEN thrown
       ELSE IF email_stripped = Absent THEN Raise("TypeError", <<>>, None, None)
       ELSE IF EMAIL_RE_match(email_stripped) = 0
       THEN throw_leniently(lenient, address, "correo electronico",
                            "hay un caracter invalido o no se ajusta al formato")
       ELSE LET p == EMAIL_RE_match(email_stripped) IN
            Returned(SubSeq(email_stripped, 1, p)
                     \o lower(SubSeq(email_stripped, p + 1, Len(email_stripped))))

\* words that keep their lower case, and the keys of NAME_PREFIXES_ES; a part
\* of a name is the sequence of the words it joins with spaces
TITLE_IGNORE_ES ==
    {"y", "e", "o", "u", "a", "al", "del", "de", "el", "la", "los", "las", "en", "para"}
NAME_PREFIXES_ES == {<<"de">>, <<"de", "la">>, <<"del">>, <<"san">>}

\* str.capitalize()
capitalize(word) ==
    CASE word = "juan" -> "Juan"
      [] word = "cruz" -> "Cruz"
      [] word = "perez" -> "Perez"
      [] word = "ana" -> "Ana"
      [] word = "de" -> "De"
      [] word = "la" -> "La"
      [] OTHER -> word

\* " ".join(parts)
RECURSIVE JoinParts(_)
JoinParts(parts) == IF parts = <<>> THEN <<>> ELSE Head(parts) \o JoinParts(Tail(parts))

\* join_prefixed_names from the part at position i (counted from 1) on
RECURSIVE join_prefixed_names_from(_, _)
join_prefixed_names_from(full_name_parts, i) ==
    IF i >= Len(full_name_parts) THEN full_name_parts
    ELSE IF full_name_parts[i] \in NAME_PREFIXES_ES
         THEN join_prefixed_names_from(
                  SubSeq(full_name_parts, 1, i - 1)
                  \o <<full_name_parts[i] \o full_name_parts[i + 1]>>
                  \o SubSeq(full_name_parts, i + 2, Len(full_name_parts)),
                  i + 1)
         ELSE join_prefixed_names_from(full_name_parts, i + 1)

join_prefixed_names(full_name_parts) == join_prefixed_names_from(full_name_parts, 2)

\* normalize_full_name on the words of a name; "".split(" ") is [""]
normalize_full_name(full_name) ==
    LET words == IF full_name = Absent \/ full_name = <<>> THEN <<"">> ELSE full_name
        parts == join_prefixed_names(
                     [i \in DOMAIN words |->
                         <<IF words[i] \notin TITLE_IGNORE_ES
                           THEN capitalize(words[i]) ELSE words[i]>>])
        n == Len(parts)
    IN CASE n = 1 -> [Returned(parts[1]) EXCEPT !.last = Absent]
         [] n = 2 -> [Returned(parts[1]) EXCEPT !.last = parts[2]]
         [] n = 3 -> [Returned(parts[1]) EXCEPT !.last = parts[2] \o parts[3]]
         [] OTHER -> [Returned(JoinParts(SubSeq(parts, 1, n - 2)))
                         EXCEPT !.last = parts[n - 1] \o parts[n]]

\* the texts the validators are called on: digit texts, bodies of IDs of
\* two digits, the ways an ID of a body is written, addresses and names
\* the amount text is handed to Decimal with its dots
KeepDots(amount) == amount
\* amount.replace(".", "")
ReplaceDots(amount) == SelectSeq(amount, LAMBDA c : c # ".")

\* int of a text of digits
RECURSIVE IntOf(_)
IntOf(digits) ==
    IF digits = <<>> THEN 0
    ELSE 10 * IntOf(SubSeq(digits, 1, Len(digits) - 1)) + DigitValue(digits[Len(digits)])

\* the places of the text after its first point
Decimals(text) ==
    Len(text) - (CHOOSE i \in DOMAIN text : text[i] = "." /\ \A j \in 1..(i - 1) : text[j] # ".")

\* Decimal(text) of a text of digits, points and commas: <<coefficient,
\* exponent>> for digits with at most one point among them, and
\* InvalidOperation for any other text
Decimal(text) ==
    LET points == Len(SelectSeq(text, LAMBDA c : c = "."))
        digits == OnlyDigits(text)
    IN IF digits = <<>> \/ points > 1 \/ Len(digits) + points # Len(text)
       THEN Raise("InvalidOperation", <<>>, None, None)
       ELSE Returned(<<IntOf(digits), IF points = 0 THEN 0 ELSE 0 - Decimals(text)>>)

\* money_from_compound on texts: "$" is clp and any other currency text is
\* lowercased (None has no lower); the amount text loses its dots and is
\* converted by Decimal (None is not a str and Decimal(None) raises)
money_from_compound_str(currency, amount) ==
    IF currency = Absent THEN Raise("AttributeError", <<>>, None, None)
    ELSE IF amount = Absent THEN Raise("TypeError", <<>>, None, None)
    ELSE LET amount_dec == Decimal(ReplaceDots(amount))
         IN IF amount_dec.kind # "ok" THEN amount_dec
            ELSE [amount_dec EXCEPT
                    !.currency = IF currency = <<"$">> THEN <<"c", "l", "p">>
                                 ELSE lower(currency)]

SeqsOfLen(S, lo, hi) == UNION {[1..n -> S] : n \in lo..hi}

BodyChars == {"1", "4"}
RutLengths == (MinRutDigits - 1)..MaxRutDigits

\* the characters written after the hyphen of a body
CheckTexts(body) == {rut_last_digit(body), "0", "5", "k", "K", "x"}

\* a body alone, with a hyphen and a character, with its check character
\* and no hyphen, with blanks around; with dots and without
RutTextsOf(body) ==
    {body, Dotted(body)}
    \cup {w \o <<"-", c>> : w \in {body, Dotted(body)}, c \in CheckTexts(body)}
    \cup {body \o <<rut_last_digit(body)>>,
          <<" ">> \o Dotted(body) \o <<"-", rut_last_digit(body), " ">>}

\* None, empty and blank texts, texts without a digit
OtherRutTexts == {Absent, <<>>, <<" ">>, <<"x">>, <<"-">>, <<".", ".", "-", "0">>}

EmailChars == {"a", "B", "@", ".", " "}
NameWords == {"juan", "de", "la", "cruz", "perez", "ana"}

Call(fn, arg, lenient, dotted) ==
    [fn |-> fn, arg |-> arg, lenient |-> lenient, dotted |-> dotted, currency |-> <<>>]

\* texts of an amount, and the amount of the listing 1.234.567
AmountChars == {"1", "2", ".", ","}
GroupedAmount == <<"1", ".", "2", "3", "4", ".", "5", "6", "7">>

\* texts of a currency: the glyph, codes, a glyph with a letter, the empty
\* text and None
CurrencyStrs ==
    {<<"$">>, <<"U", "S", "D">>, <<"u", "s", "d">>, <<"$", "U">>, <<>>, Absent}

\* a call money_from_compound(currency, amount)
MoneyCall(currency, amount) ==
    [Call("money_from_compound", amount, FALSE, FALSE) EXCEPT !.currency = currency]

(* ---------------------------------------------------------------------- *)
(* Bundles (AgilCrawlContents) and the graph parsed from one               *)
(* ---------------------------------------------------------------------- *)
Titles == {"t1", "t2"}
StatusTexts == {"Publicada", "Borrador"}
\* texts of lblRutOrganismo; "bad" holds no digit
Ruts == {"11.111.111-1", "22222222-2", "bad"}
\* texts validate_rut accepts: two organisations, each written with and
\* without dots
ValidRuts == {"11.111.111-1", "11111111-1", "22.222.222-2", "22222222-2"}
ProductNames == {"n1", "n2"}

\* texts of lblMonedaSymbol
CurrencyTexts == {"$", "USD", "EUR"}

\* A bundle (AgilCrawlContents). Of its main document: lblExternalCodeQuote,
\* lblTextName, lblrstStatus, lblRutOrganismo, the name of the first product
\* row of gvCategory and the summaries of its rows (all of one product type),
\* lblFechaPublicacion, lblFechaCierre, lblMonedaSymbol,
\* lblMontoTotalDisponible, lblDescEmail (a sequence of characters) and the
\* text of gvSeleccionado, None (Absent for the e-mail) for an element the
\* document does not hold.
\* modals are the blobs of the provider grid, modal_selected the blob of the
\* selected provider or None, provider_listing is <<>> for None and else
\* <<rows>>, the rows of the sheet in order; bo_pdf and bo_screen are the
\* file and the snapshot of the buying order, or None.
ProductRows == <<"s1", "s2">>

Detail(idn, title, status, rut, ptName) ==
    [idn |-> idn, title |-> title, status |-> status, rut |-> rut, ptName |-> ptName,
     product_rows |-> ProductRows,
     published_at |-> "01-03-2024 10:00:00", closed_at |-> "08-03-2024 10:00:00",
     sum_currency |-> "$", sum_amount |-> "1.000",
     email |-> <<"a", "@", "B">>, selected_rut |-> None,
     modals |-> <<>>, modal_selected |-> None, provider_listing |-> <<>>,
     bo_pdf |-> None, bo_screen |-> None]

Bundles ==
    {[Detail(idn, title, status, rut, ptName) EXCEPT !.sum_currency = currency] :
        idn \in Idns, title \in Titles, status \in StatusTexts, rut \in Ruts,
        ptName \in ProductNames, currency \in {"$", "EUR"}}

str_to_bid_status(value) ==
    CASE value = "OC Emitida" -> "BO_EMITTED"
      [] value = "Cerrada" -> "CLOSED"
      [] value = "Cancelada" -> "CANCELLED"
      [] value = "Publicada" -> "PUBLISHED"
      [] OTHER -> None

\* validate_rut in strict mode raises on an ID it does not accept.
validate_rut_raises(rut) == rut \notin ValidRuts

ParseFailed == [ok |-> FALSE]

\* parse holds no graph; the generator is not suspended on a pair
NoModels == [ok |-> FALSE]
NoItem == [idn |-> 0]

\* validate_rut: the ID normalised, with dots between groups of three digits
\* of the body or without them, for a text it accepts.
validate_rut(rut, dotted) ==
    CASE rut \in {"11.111.111-1", "11111111-1"} ->
            IF dotted THEN "11.111.111-1" ELSE "11111111-1"
      [] rut \in {"22.222.222-2", "22222222-2"} ->
            IF dotted THEN "22.222.222-2" ELSE "22222222-2"

\* datetime.strptime raises on None
strptime_raises(text) == text = None

\* str.lower() of the text of a currency
LowerText(text) ==
    CASE text = "USD" -> "usd"
      [] text = "EUR" -> "eur"
      [] OTHER -> text

\* amount.replace(".", "") of the text of an amount
WithoutDots(amount) == IF amount = "1.000" THEN "1000" ELSE amount

\* money_from_compound raises on a currency or an amount that is None
money_from_compound_raises(currency, amount) == currency = None \/ amount = None

\* money_from_compound: "$" is clp, any other text is lowercased; amount_dec
\* is the amount, for a text without its dots
money_from_compound(currency, amount_dec) ==
    [amount |-> amount_dec,
     currency |-> IF currency = "$" THEN "clp" ELSE LowerText(currency)]

\* the Products of the Bid, one per row of gvCategory
Products(agil) ==
    [k \in DOMAIN agil.product_rows |->
        [bid_idn |-> agil.idn, type_code |-> 7, title |-> agil.product_rows[k]]]

\* the block of the applications runs
HasApplications(agil) == agil.modals # <<>> /\ agil.provider_listing # <<>>

Max(S) == CHOOSE x \in S : \A y \in S : y <= x

\* df_applications["j"].max() + 1
GroupSize(table) == Max({table[r].j : r \in DOMAIN table}) + 1

\* the rows grouped by the column "Cotizacion" instead of by position
SheetsByQuote(agil) ==
    LET table == agil.provider_listing[1]
        quotes == {table[r].i : r \in DOMAIN table}
        RowsOf(q) == {r \in DOMAIN table : table[r].i = q}
        First(q) == CHOOSE r \in RowsOf(q) : \A y \in RowsOf(q) : r <= y
    IN [g \in 1..Cardinality(quotes) |->
           [k \in 1..Cardinality(RowsOf(g)) |-> table[First(g) + k - 1]]]
\* df_applications.groupby(df_applications.index // groupby): the rows of
\* each key, in order
Sheets(agil) ==
    LET table == agil.provider_listing[1]
        groupby == GroupSize(table)
        keys == {(r - 1) \div groupby : r \in DOMAIN table}
        RowsOf(key) == {r \in DOMAIN table : (r - 1) \div groupby = key}
    IN [g \in 1..Cardinality(keys) |->
           [k \in 1..Cardinality(RowsOf(g - 1)) |-> table[(g - 1) * groupby + k]]]

\* the ID text of the total row (the first row) of each group
Groups(agil) == [g \in DOMAIN Sheets(agil) |-> Sheets(agil)[g][1].organization_rut]

Min(a, b) == IF a <= b THEN a ELSE b

\* selected_rut of the parser: None without the blob of the selected provider
SelectedRut(agil) ==
    IF agil.modal_selected # None THEN validate_rut(agil.selected_rut, TRUE) ELSE None

\* a Product made for the row instead of the Product of the Bid
ProductOfRowDetached(products, idx) == [products[idx] EXCEPT !.bid_idn = 0]
\* products[idx]
ProductOfRow(products, idx) == products[idx]

\* the ApplicationProduct of every row of the sheet after the total row
ApplicationProducts(agil, sheet) ==
    [k \in 1..(Len(sheet) - 1) |->
        [sum |-> money_from_compound(sheet[1].sum_currency, sheet[k + 1].sum_per_unit),
         product |-> ProductOfRow(Products(agil), k)]]

\* the Application of every (modal, group) pair of zip(agil.modals, groupby)
Applications(agil) ==
    IF ~HasApplications(agil) THEN <<>>
    ELSE [i \in 1..Min(Len(agil.modals), Len(Groups(agil))) |->
            [bid_idn |-> agil.idn,
             rut |-> validate_rut(Groups(agil)[i], TRUE),
             summary |-> agil.modals[i],
             sent_at |-> agil.modals[i],
             total_sum |-> money_from_compound(Sheets(agil)[i][1].sum_currency,
                                               Sheets(agil)[i][1].sum_total),
             products |-> ApplicationProducts(agil, Sheets(agil)[i]),
             accepted |-> IF SelectedRut(agil) = None THEN None
                          ELSE IF SelectedRut(agil) = validate_rut(Groups(agil)[i], TRUE)
                               THEN "True" ELSE "False"]]

\* the local sum when the Bid is made: the Money of lblMonedaSymbol and
\* lblMontoTotalDisponible, rebound by every row of the loop over sheet[1:]
BidSum(agil) ==
    LET applications == Applications(agil)
        quoted == {i \in DOMAIN applications : applications[i].products # <<>>}
    IN IF quoted = {}
       THEN money_from_compound(agil.sum_currency, WithoutDots(agil.sum_amount))
       ELSE LET last == applications[Max(quoted)].products
            IN last[Len(last)].sum

\* an exception is raised on the way to the Bid
ParseRaises(agil) ==
    \/ strptime_raises(agil.published_at)
    \/ strptime_raises(agil.closed_at)
    \/ validate_rut_raises(agil.rut)
    \/ money_from_compound_raises(agil.sum_currency, agil.sum_amount)
    \/ validate_email_address(agil.email, TRUE).kind \notin {"ok", "False"}
    \/ /\ HasApplications(agil)
       /\ \/ agil.modal_selected # None /\ validate_rut_raises(agil.selected_rut)
          \/ Len(agil.modals) # Len(Groups(agil))
          \/ \E i \in DOMAIN Groups(agil) : validate_rut_raises(Groups(agil)[i])
          \/ \E i \in DOMAIN Sheets(agil) :
                Len(Sheets(agil)[i]) - 1 > Len(agil.product_rows)

\* parse_agil_into_db_model: the graph of one bundle, or a failure.
parse_agil_into_db_model(agil) ==
    IF ParseRaises(agil)
    THEN ParseFailed
    ELSE [ok |-> TRUE,
          bid |-> [idn |-> agil.idn, title |-> agil.title,
                   status |-> str_to_bid_status(agil.status),
                   sum |-> BidSum(agil),
                   products |-> Products(agil),
                   contact_email |-> validate_email_address(agil.email, TRUE).value],
          product_types |-> <<[code |-> 7, name |-> agil.ptName]>>,
          organizations |->
              <<[rut |-> validate_rut(agil.rut, FALSE)]>> \o
              [i \in DOMAIN Applications(agil) |-> [rut |-> Applications(agil)[i].rut]],
          applications |-> Applications(agil)]

(* ---------------------------------------------------------------------- *)
(* The store: one sequence of rows per table                               *)
(* ---------------------------------------------------------------------- *)
\* the primary key column of each table
ProductTypePKByName == "name"
ProductTypePK == "code"
OrganizationPK == "rut"
CurrencyPK == "code"
BidPK == "idn"

\* Session.merge: the row with the same primary key takes the incoming
\* values; a row is inserted when there is none.
SessionMerge(table, row, pk) ==
    IF \E i \in DOMAIN table : table[i][pk] = row[pk]
    THEN [i \in DOMAIN table |-> IF table[i][pk] = row[pk] THEN row ELSE table[i]]
    ELSE Append(table, row)

RECURSIVE MergeProductTypes(_, _)
MergeProductTypes(table, rows) ==
    IF rows = <<>> THEN table
    ELSE MergeProductTypes(SessionMerge(table, Head(rows), ProductTypePK), Tail(rows))

RECURSIVE MergeOrganizations(_, _)
MergeOrganizations(table, rows) ==
    IF rows = <<>> THEN table
    ELSE MergeOrganizations(SessionMerge(table, Head(rows), OrganizationPK), Tail(rows))

RECURSIVE MergeCurrencies(_, _)
MergeCurrencies(table, rows) ==
    IF rows = <<>> THEN table
    ELSE MergeCurrencies(SessionMerge(table, Head(rows), CurrencyPK), Tail(rows))

\* The Bid of the graph: added unless a Bid with its idn is stored.
MergeBidOverwrite(table, bid) == SessionMerge(table, bid, BidPK)
MergeBid(table, bid) ==
    IF \E i \in DOMAIN table : table[i][BidPK] = bid[BidPK]
    THEN table
    ELSE Append(table, bid)

merge_agil_models_into_db(session, models) ==
    [session EXCEPT
        !.product_type = MergeProductTypes(@, models.product_types),
        !.organization = MergeOrganizations(@, models.organizations),
        !.bid = MergeBid(@, models.bid)]

\* The flush of a commit fails on a Bid without status or title (NOT NULL)
\* and on two Bid rows with one idn (primary key).
FlushFails(session) ==
    \/ \E i \in DOMAIN session.bid : session.bid[i].status = None
    \/ \E i \in DOMAIN session.bid : session.bid[i].title = None
    \/ \E i, j \in DOMAIN session.bid :
          i # j /\ session.bid[i][BidPK] = session.bid[j][BidPK]

\* Session.rollback: the session goes back to what is committed.
RollbackKeepsPending(session, committed) == session
Rollback(session, committed) == committed

\* mpscraper.static.currency, merged by init_database.
StaticCurrency == <<[code |-> "clp", name |-> "Peso chileno"],
                    [code |-> "usd", name |-> "Dolar"]>>

\* The store after prepare_database on an empty database.
EmptyDb ==
    [bid |-> <<>>, product_type |-> <<>>, organization |-> <<>>,
     currency |-> MergeCurrencies(<<>>, StaticCurrency)]

\* A listing merged by an earlier run.
StoredBundle == Detail(1, "t1", "Publicada", "11.111.111-1", "n1")

StoredDb == merge_agil_models_into_db(EmptyDb, parse_agil_into_db_model(StoredBundle))

InitialDbs == {EmptyDb, StoredDb}

(* ---------------------------------------------------------------------- *)
(* State                                                                   *)
(* ---------------------------------------------------------------------- *)
VARIABLES
    save_files,   \* args.save_files
    ignores,      \* get_ignores: idns stored as Bid or cached locally
    ignore,       \* scrape's ignore: ignores with --only-missing, else empty
    args_limit,   \* args.limit: <<>> for None (no --limit), <<n>> for n
    cache,        \* folders of the local artifact cache (WORK_DIR)
    pc,           \* position of main / scrape / parse
    caller,       \* the operation visit_merpub_section works for
    pageUrl,      \* crawler.page.url
    loginPage,    \* what the page shows after main_process of a login attempt
    result_list,  \* keys of the parsed search result, in order
    limit,        \* scrape's limit
    idx,          \* position of the scrape loop in result_list
    count,        \* scrape's count
    ripped,       \* keys of scrape's ripped
    item,         \* the pair the generator is suspended on, or None
    files,        \* main's files, then parse's agils: <<[idn, agil]>>
    searches,     \* calls of crawl_results_from_agil_params
    crawled,      \* calls of crawl_from_agil_idn, in order
    yielded,      \* idns of the pairs yielded, in order
    dumps,        \* calls of save_dump
    blocked,      \* a login attempt raised "La cuenta aparece como bloqueada"
    fatal,        \* scrape returned on a fatal failure
    pidx,         \* position of the parse loop in files
    models,       \* the graph parse holds between parsing and merging
    db,           \* the committed store
    tx,           \* the store as the session sees it (with pending changes)
    mcount,       \* parse's count
    log,          \* log entries: [ev, idn]
    resources,    \* the crawler's playwright, browser and context
    frameUrl,     \* crawler.f.url, "none" while the page has no fraDetalle frame
    visit,        \* what the call of visit_merpub_section in progress has done
    args_dates,   \* args.days_before, args.from_, args.until: <<>> for None
    date_from,    \* scrape's from_: <<>> for None
    date_until,   \* scrape's until: <<>> for None
    page,         \* the detail page of the listing being retrieved
    link,         \* position of crawl_from_agil_idn in modal_links
    posts,        \* grid rows POSTed for their modal, in order
    modal_contents,          \* crawl_from_agil_idn's modal_contents: rows answered
    selected_modal_content,  \* crawl_from_agil_idn's selected_modal_content
    provider_listing,        \* crawl_from_agil_idn's provider_listing: <<>> for None
    bo_screen,    \* crawl_from_agil_idn's bo_screen
    bo_pdf,       \* crawl_from_agil_idn's bo_pdf
    call,         \* a call of a validator: [fn, arg, lenient, dotted]
    ret,          \* what the call returned or raised
    again         \* what a second call, made on the result, returned or raised

\* Crawler.__init__ up to the statement that raises (None: none does):
\* sync_playwright().start(), chromium.launch(), new_context(), new_page()
CrawlerInitSteps == {"start", "launch", "new_context", "new_page"}

NoResources == [playwright |-> "none", browser |-> "none", context |-> "none"]

Crawler_init(raises_at) ==
    [playwright |-> IF raises_at = "start" THEN "none" ELSE "open",
     browser |-> IF raises_at \in {"start", "launch"} THEN "none" ELSE "open",
     context |-> IF raises_at \in {"start", "launch", "new_context"} THEN "none" ELSE "open"]

\* Crawler.__del__: context.close(), browser.close(), playwright.stop(); on
\* an object without context the first statement raises AttributeError and
\* the others are not run
Crawler_del(res) ==
    IF res.context = "none" THEN res
    ELSE [playwright |-> "closed", browser |-> "closed", context |-> "closed"]

\* no detail page is open
NoPage == [open |-> FALSE]

\* locals of crawl_from_agil_idn on the detail page of one listing
orderVars == <<provider_listing, bo_screen, bo_pdf>>

listingVars == <<page, link, posts, modal_contents, selected_modal_content, orderVars>>

scrapeVars ==
    <<save_files, ignores, ignore, args_limit, cache, caller, pageUrl, loginPage, result_list,
      limit, idx, count, ripped, item, searches, crawled, yielded, dumps, blocked,
      fatal, listingVars>>

parseVars == <<files, pidx, models, db, tx, mcount>>

\* a validator called on its own
valVars == <<call, ret, again>>

\* the frame of the portal and the visit of a section
frameVars == <<frameUrl, visit>>

\* the date arguments and the range scrape derives from them
dateVars == <<args_dates, date_from, date_until>>

vars == <<scrapeVars, parseVars, pc, log, resources, valVars, frameVars, dateVars>>

\* visit_merpub_section has gone nowhere, logged in nowhere, clicked nothing
NoVisit == [goto |-> FALSE, login |-> FALSE, click |-> FALSE]

\* no date argument given
NoDates == [days_before |-> <<>>, from_ |-> <<>>, until |-> <<>>]

Entry(ev, idn) == [ev |-> ev, idn |-> idn]

(* ---------------------------------------------------------------------- *)
(* application.parse: one listing at a time                                *)
(* ---------------------------------------------------------------------- *)
\* parse_agil_into_db_model on the next bundle; a failure is logged and the
\* loop continues.
ParseListing ==
    /\ pc = "parse"
    /\ pidx <= Len(files)
    /\ LET parsed == parse_agil_into_db_model(files[pidx].agil) IN
         IF parsed.ok
         THEN /\ models' = parsed
              /\ pc' = "merge"
              /\ UNCHANGED <<pidx, log>>
         ELSE /\ log' = log \cup {Entry("parse_error", files[pidx].idn)}
              /\ pidx' = pidx + 1
              /\ UNCHANGED <<models, pc>>
    /\ UNCHANGED <<scrapeVars, files, db, tx, mcount>>
    /\ UNCHANGED resources
    /\ UNCHANGED valVars
    /\ UNCHANGED frameVars
    /\ UNCHANGED dateVars

\* merge_agil_models_into_db(session, models)
MergeListing ==
    /\ pc = "merge"
    /\ tx' = merge_agil_models_into_db(tx, models)
    /\ pc' = "commit"
    /\ UNCHANGED <<scrapeVars, files, pidx, models, db, mcount, log>>
    /\ UNCHANGED resources
    /\ UNCHANGED valVars
    /\ UNCHANGED frameVars
    /\ UNCHANGED dateVars

\* session.commit(), or session.rollback() when it raises
CommitListing ==
    /\ pc = "commit"
    /\ IF FlushFails(tx)
       THEN /\ log' = log \cup {Entry("merge_error", files[pidx].idn)}
            /\ tx' = Rollback(tx, db)
            /\ UNCHANGED <<db, mcount>>
       ELSE /\ db' = tx
            /\ mcount' = mcount + 1
            /\ UNCHANGED <<tx, log>>
    /\ pidx' = pidx + 1
    /\ models' = NoModels
    /\ pc' = "parse"
    /\ UNCHANGED <<scrapeVars, files>>
    /\ UNCHANGED resources
    /\ UNCHANGED valVars
    /\ UNCHANGED frameVars
    /\ UNCHANGED dateVars

\* the end of parse, and of main
ParseEnd ==
    /\ pc = "parse"
    /\ pidx > Len(files)
    /\ log' = IF mcount > 0 THEN log \cup {Entry("db_updated", 0)} ELSE log
    /\ pc' = "done"
    /\ UNCHANGED <<scrapeVars, parseVars>>
    /\ UNCHANGED resources
    /\ UNCHANGED valVars
    /\ UNCHANGED frameVars
    /\ UNCHANGED dateVars

NextMerge == ParseListing \/ MergeListing \/ CommitListing \/ ParseEnd

\* files of parse called on any mapping of at most MaxFiles bundles
\* the editions of a listing's page: its title, the name of its product and
\* its currency change together from one edition to the next
Editions ==
    {b \in Bundles : /\ (b.title = "t1") <=> (b.ptName = "n1")
                     /\ (b.title = "t1") <=> (b.sum_currency = "$")}

FileSeqs ==
    UNION {[1..n -> Editions] : n \in 0..MaxFiles}

InitMerge ==
    /\ save_files = FALSE
    /\ ignores = {}
    /\ ignore = {}
    /\ args_limit = <<>>
    /\ cache = {}
    /\ caller = None
    /\ pageUrl = "blank"
    /\ loginPage = None
    /\ result_list = <<>>
    /\ limit = 0
    /\ idx = 1
    /\ count = 0
    /\ ripped = {}
    /\ item = NoItem
    /\ searches = 0
    /\ crawled = <<>>
    /\ yielded = <<>>
    /\ dumps = 0
    /\ blocked = FALSE
    /\ fatal = FALSE
    /\ \E agils \in FileSeqs :
          files = [i \in DOMAIN agils |-> [idn |-> i, agil |-> agils[i]]]
    /\ pidx = 1
    /\ models = NoModels
    /\ db \in InitialDbs
    /\ tx = db
    /\ mcount = 0
    /\ log = {}
    /\ resources = NoResources
    /\ page = NoPage
    /\ link = 1
    /\ posts = <<>>
    /\ modal_contents = <<>>
    /\ selected_modal_content = None
    /\ provider_listing = <<>>
    /\ bo_screen = None
    /\ bo_pdf = None
    /\ frameUrl = "none"
    /\ visit = NoVisit
    /\ args_dates = NoDates
    /\ date_from = <<>>
    /\ date_until = <<>>
    /\ call = NoCall
    /\ ret = NoRet
    /\ again = NoRet
    /\ pc = "parse"

SpecMerge == InitMerge /\ [][NextMerge]_vars

(* ---------------------------------------------------------------------- *)
(* application.main and application.scrape                                 *)
(* ---------------------------------------------------------------------- *)
BidIdns(store) == {store.bid[i].idn : i \in DOMAIN store.bid}

get_ignores(store, folders) == BidIdns(store) \cup folders

\* what the portal and the cache hold for a listing in a run: a bundle that
\* merges, one that fails to parse, one that fails at commit
SiteContents ==
    {[status |-> "Publicada", rut |-> "22222222-2"],
     [status |-> "Publicada", rut |-> "bad"],
     [status |-> "Borrador", rut |-> "22222222-2"]}

SiteBundle(idn, content) ==
    Detail(idn, "t2", content.status, content.rut, "n2")

SiteBundles(idn) == {SiteBundle(idn, content) : content \in SiteContents}

\* the rows of a search result, possibly naming an idn twice
RowSeqs == UNION {[1..n -> Idns] : n \in 0..MaxRows}

\* parse_agil_search_results_html: a dict keyed by idn, so each idn keeps
\* the position of its first row
RECURSIVE SearchKeys(_, _)
SearchKeys(rows, seen) ==
    IF rows = <<>> THEN <<>>
    ELSE IF Head(rows) \in seen
         THEN SearchKeys(Tail(rows), seen)
         ELSE <<Head(rows)>> \o SearchKeys(Tail(rows), seen \cup {Head(rows)})

SearchRowsKeepDuplicates(rows) == rows
parse_agil_search_results_html(rows) == SearchKeys(rows, {})

\* limit = min(limit, len(result_list)) or len(result_list)
EffectiveLimit(lim, n) == IF Min(lim, n) = 0 THEN n ELSE Min(lim, n)

\* the break test of the scrape loop after a yield
LimitReachedLate(c, lim) == c > lim
LimitReached(c, lim) == c >= lim

\* visit_merpub_section returns to the operation that called it
Resume(op) == IF op = "search" THEN "search_do" ELSE "fetch_do"

mainVars ==
    <<save_files, ignores, cache, files, pidx, models, db, tx, mcount, listingVars>>

\* main: args.scrape decides whether scrape runs
MainStart ==
    /\ pc = "main"
    /\ \E scrape \in BOOLEAN :
          pc' = IF scrape THEN "scrape" ELSE "after_scrape"
    /\ UNCHANGED <<scrapeVars, parseVars, log>>
    /\ UNCHANGED resources
    /\ UNCHANGED valVars
    /\ UNCHANGED frameVars
    /\ UNCHANGED dateVars

\* the day the program runs on, as a day number
Today == MaxDays

\* values of --from and of --until
FromDates == {0}
UntilDates == {Today}

\* scrape: if args.days_before
DaysGiven(args) == args.days_before # <<>> /\ args.days_before[1] # 0

\* scrape: elif args.from_ and not args.until
FromAlone(args) == args.from_ # <<>> /\ args.until = <<>>

\* scrape, the date range: today and the days before it, or --from alone
\* with until = args.until; ap.error ends the process in the other cases
ScrapeDates ==
    /\ pc = "scrape"
    /\ \E days_before \in {<<>>} \cup {<<n>> : n \in 0..MaxDays},
          from_ \in {<<>>} \cup {<<d>> : d \in FromDates},
          until \in {<<>>} \cup {<<d>> : d \in UntilDates} :
          /\ args_dates' = [days_before |-> days_before, from_ |-> from_, until |-> until]
          /\ IF DaysGiven(args_dates')
             THEN /\ date_until' = <<Today>>
                  /\ date_from' = <<Today - days_before[1]>>
                  /\ pc' = "scrape_start"
             ELSE IF FromAlone(args_dates')
             THEN /\ date_until' = until
                  /\ date_from' = from_
                  /\ pc' = "scrape_start"
             ELSE /\ date_until' = <<>>
                  /\ date_from' = <<>>
                  /\ pc' = "usage_error"
    /\ UNCHANGED <<scrapeVars, parseVars, log>>
    /\ UNCHANGED resources
    /\ UNCHANGED valVars
    /\ UNCHANGED frameVars

\* scrape up to the call of crawl_results_from_agil_params: the skip-set,
\* and the crawler, whose creation may fail; the date arguments are not read
\* again
ScrapeStart ==
    /\ pc = "scrape_start"
    /\ \E only_missing \in BOOLEAN :
          ignore' = IF only_missing THEN ignores ELSE {}
    /\ args_limit' \in {<<>>} \cup {<<n>> : n \in 0..MaxLimit}
    /\ args_dates' = NoDates
    /\ \/ /\ resources' = Crawler_init(None)
          /\ pc' = "visit"
          /\ caller' = "search"
          /\ searches' = searches + 1
          /\ UNCHANGED <<log, fatal, date_from, date_until>>
       \/ /\ \E raises_at \in CrawlerInitSteps :
                resources' = Crawler_del(Crawler_init(raises_at))
          /\ log' = log \cup {Entry("crawler_error", 0)}
          /\ fatal' = TRUE
          /\ pc' = "after_scrape"
          /\ date_from' = <<>>
          /\ date_until' = <<>>
          /\ UNCHANGED <<caller, searches>>
    /\ UNCHANGED <<mainVars, pageUrl, loginPage, result_list, limit, idx, count,
                   ripped, item, crawled, yielded, dumps, blocked>>
    /\ UNCHANGED valVars
    /\ UNCHANGED frameVars

\* except-handler of the search: fatal to the run
SearchFailed ==
    /\ log' = log \cup {Entry("search_error", 0)}
    /\ dumps' = dumps + 1
    /\ fatal' = TRUE
    /\ resources' = Crawler_del(resources)
    /\ pc' = "after_scrape"
    /\ visit' = NoVisit
    /\ args_dates' = NoDates
    /\ date_from' = <<>>
    /\ date_until' = <<>>
    /\ UNCHANGED idx

FetchFailedLeavesLoop ==
    /\ log' = log \cup {Entry("fetch_error", result_list[idx])}
    /\ dumps' = dumps + 1
    /\ pc' = "loop_end"
    /\ visit' = NoVisit
    /\ UNCHANGED <<idx, fatal>>
    /\ UNCHANGED resources
    /\ UNCHANGED dateVars

\* except-handler of the scrape loop: the listing is logged and left out
FetchFailed ==
    /\ log' = log \cup {Entry("fetch_error", result_list[idx])}
    /\ dumps' = dumps + 1
    /\ idx' = idx + 1
    /\ pc' = "loop"
    /\ visit' = NoVisit
    /\ UNCHANGED fatal
    /\ UNCHANGED resources
    /\ UNCHANGED dateVars

\* an exception raised inside the crawler reaches the handler of the caller
Raised == IF caller = "search" THEN SearchFailed ELSE FetchFailed

\* the frame a page shows once loaded: none, the Agile search, or another page
FrameUrls == {"none", "agil", "other"}

\* visit_merpub_section: go to the portal unless the page is on it, and
\* log in when that lands on the home page
Visit ==
    /\ pc = "visit"
    /\ IF pageUrl # "portal"
       THEN \E landed \in {"portal", "home"} :
               /\ pageUrl' = landed
               /\ loginPage' = None
               /\ frameUrl' \in IF landed = "home" THEN {"none"} ELSE FrameUrls
               /\ visit' = [goto |-> TRUE, login |-> landed = "home", click |-> FALSE]
               /\ pc' = IF landed = "home" THEN "login_main" ELSE "section"
       ELSE /\ pc' = "section"
            /\ visit' = NoVisit
            /\ UNCHANGED <<pageUrl, loginPage, frameUrl>>
    /\ UNCHANGED <<mainVars, ignore, args_limit, caller, result_list, limit, idx,
                   count, ripped, item, searches, crawled, yielded, dumps, blocked,
                   fatal, log>>
    /\ UNCHANGED resources
    /\ UNCHANGED valVars
    /\ UNCHANGED dateVars

\* the menu entry is clicked whatever the frame shows
NeverOnAgilSearch(url) == FALSE
\* visit_merpub_section: self.f.url == BUSQUEDA_AGIL_URL
OnAgilSearch(url) == url = "agil"

\* visit_merpub_section, the section: the link "COMPRA AGIL" is clicked
\* unless the frame is on the Agile search
VisitSection ==
    /\ pc = "section"
    /\ frameUrl # "none"
    /\ IF OnAgilSearch(frameUrl)
       THEN UNCHANGED frameVars
       ELSE /\ frameUrl' = "agil"
            /\ visit' = [visit EXCEPT !.click = TRUE]
    /\ pc' = Resume(caller)
    /\ UNCHANGED <<scrapeVars, parseVars, log>>
    /\ UNCHANGED resources
    /\ UNCHANGED valVars
    /\ UNCHANGED dateVars

\* the property f raises when the page has no frame fraDetalle
VisitNoFrame ==
    /\ pc = "section"
    /\ frameUrl = "none"
    /\ Raised
    /\ UNCHANGED <<mainVars, ignore, args_limit, caller, pageUrl, loginPage, result_list, limit,
                   count, ripped, item, searches, crawled, yielded, blocked>>
    /\ UNCHANGED valVars
    /\ UNCHANGED frameUrl

\* what a login attempt can leave on the page: the blocked-account
\* indicator, the organism selector, both or neither
LoginPages == {"blocked", "blocked_picker", "picker", "nothing"}

\* login_merpub, main_process: one login attempt up to the loaded page
LoginMain ==
    /\ pc = "login_main"
    /\ \E shown \in LoginPages :
          /\ loginPage' = shown
          /\ pageUrl' = "login"
          /\ pc' = "login_wait"
    /\ UNCHANGED <<mainVars, ignore, args_limit, caller, result_list, limit, idx, count, ripped,
                   item, searches, crawled, yielded, dumps, blocked, fatal, log>>
    /\ UNCHANGED resources
    /\ UNCHANGED valVars
    /\ UNCHANGED frameVars
    /\ UNCHANGED dateVars

\* login_merpub, main_process: a click or navigation of the attempt raises
LoginMainRaises ==
    /\ pc = "login_main"
    /\ pageUrl' = "login"
    /\ Raised
    /\ UNCHANGED <<mainVars, ignore, args_limit, caller, loginPage, result_list, limit, count,
                   ripped, item, searches, crawled, yielded, blocked>>
    /\ UNCHANGED valVars
    /\ UNCHANGED frameUrl

\* the indicator is never looked for
BlockedNeverShown(shown) == FALSE
\* login_merpub: p.query_selector(".swal2-container")
BlockedShown(shown) == shown \in {"blocked", "blocked_picker"}

\* login_merpub: wait_for_selector(".rdbOrganismo") finds the selector
SelectorShown(shown) == shown \in {"picker", "blocked_picker"}

\* login_merpub: the blocked-account indicator is on the page
LoginBlocked ==
    /\ pc = "login_wait"
    /\ BlockedShown(loginPage)
    /\ blocked' = TRUE
    /\ Raised
    /\ UNCHANGED <<mainVars, ignore, args_limit, caller, pageUrl, loginPage, result_list, limit,
                   count, ripped, item, searches, crawled, yielded>>
    /\ UNCHANGED valVars
    /\ UNCHANGED frameUrl

\* login_merpub: the organism selector shows within the wait; the first
\* organism is chosen and the portal entered
LoginEnters ==
    /\ pc = "login_wait"
    /\ ~BlockedShown(loginPage)
    /\ SelectorShown(loginPage)
    /\ \E url \in {"portal", "other"} : pageUrl' = url
    /\ frameUrl' \in FrameUrls
    /\ loginPage' = None
    /\ pc' = "section"
    /\ UNCHANGED <<mainVars, ignore, args_limit, caller, result_list, limit, idx,
                   count, ripped, item, searches, crawled, yielded, dumps, blocked,
                   fatal, log>>
    /\ UNCHANGED resources
    /\ UNCHANGED valVars
    /\ UNCHANGED visit
    /\ UNCHANGED dateVars

\* wait_for_selector without its timeout would wait for ever
NoTimeout(shown) == FALSE
\* login_merpub: wait_for_selector raises TimeoutError after 2500 ms
SelectorTimesOut(shown) == ~SelectorShown(shown)

\* login_merpub: no selector within the wait; the whole attempt starts again
LoginRetry ==
    /\ pc = "login_wait"
    /\ ~BlockedShown(loginPage)
    /\ SelectorTimesOut(loginPage)
    /\ log' = log \cup {Entry("login_retry", 0)}
    /\ pc' = "login_main"
    /\ UNCHANGED <<mainVars, ignore, args_limit, caller, pageUrl, loginPage, result_list, limit,
                   idx, count, ripped, item, searches, crawled, yielded, dumps,
                   blocked, fatal>>
    /\ UNCHANGED resources
    /\ UNCHANGED valVars
    /\ UNCHANGED frameVars
    /\ UNCHANGED dateVars

\* crawl_results_from_agil_params raises, or finds no result and returns None
SearchFails ==
    /\ pc = "search_do"
    /\ SearchFailed
    /\ UNCHANGED <<mainVars, ignore, args_limit, caller, pageUrl, loginPage, result_list, limit,
                   count, ripped, item, searches, crawled, yielded, blocked>>
    /\ UNCHANGED valVars
    /\ UNCHANGED frameUrl

\* the search returns its rows; scrape computes limit from args.limit, which
\* is None when --limit is not given: min(None, n) raises TypeError
SearchReturns ==
    /\ pc = "search_do"
    /\ date_from # <<>>
    /\ date_until # <<>>
    /\ \E rows \in RowSeqs :
          result_list' = parse_agil_search_results_html(rows)
    /\ IF args_limit # <<>>
       THEN /\ limit' = EffectiveLimit(args_limit[1], Len(result_list'))
            /\ log' = log \cup {Entry("expected", limit')}
            /\ pc' = "loop"
       ELSE /\ pc' = "crashed"
            /\ UNCHANGED <<limit, log>>
    /\ idx' = 1
    /\ count' = 0
    /\ UNCHANGED <<mainVars, ignore, args_limit, caller, pageUrl, loginPage, ripped, item,
                   searches, crawled, yielded, dumps, blocked, fatal>>
    /\ UNCHANGED resources
    /\ UNCHANGED valVars
    /\ visit' = NoVisit
    /\ args_dates' = NoDates
    /\ date_from' = <<>>
    /\ date_until' = <<>>
    /\ UNCHANGED frameUrl

\* the skip without its log entry
LoopSkipSilently ==
    /\ pc = "loop"
    /\ idx <= Len(result_list)
    /\ result_list[idx] \in ignore
    /\ limit' = limit - 1
    /\ idx' = idx + 1
    /\ UNCHANGED <<mainVars, ignore, args_limit, caller, pageUrl, loginPage, result_list, count,
                   ripped, item, searches, crawled, yielded, dumps, blocked, fatal,
                   pc, log>>
    /\ UNCHANGED resources
    /\ UNCHANGED valVars
    /\ UNCHANGED frameVars
    /\ UNCHANGED dateVars

\* the scrape loop on an idn of the skip-set
LoopSkip ==
    /\ pc = "loop"
    /\ idx <= Len(result_list)
    /\ result_list[idx] \in ignore
    /\ log' = log \cup {Entry("skip", result_list[idx])}
    /\ limit' = limit - 1
    /\ idx' = idx + 1
    /\ UNCHANGED <<mainVars, ignore, args_limit, caller, pageUrl, loginPage, result_list, count,
                   ripped, item, searches, crawled, yielded, dumps, blocked, fatal,
                   pc>>
    /\ UNCHANGED resources
    /\ UNCHANGED valVars
    /\ UNCHANGED frameVars
    /\ UNCHANGED dateVars

\* the scrape loop calls crawl_from_agil_idn
LoopCrawl ==
    /\ pc = "loop"
    /\ idx <= Len(result_list)
    /\ result_list[idx] \notin ignore
    /\ crawled' = Append(crawled, result_list[idx])
    /\ caller' = "fetch"
    /\ pc' = "visit"
    /\ UNCHANGED <<mainVars, ignore, args_limit, pageUrl, loginPage, result_list, limit, idx,
                   count, ripped, item, searches, yielded, dumps, blocked, fatal,
                   log>>
    /\ UNCHANGED resources
    /\ UNCHANGED valVars
    /\ UNCHANGED frameVars
    /\ UNCHANGED dateVars

\* the scrape loop has no idn left
LoopExhausted ==
    /\ pc = "loop"
    /\ idx > Len(result_list)
    /\ pc' = "loop_end"
    /\ UNCHANGED <<scrapeVars, parseVars, log>>
    /\ UNCHANGED resources
    /\ UNCHANGED valVars
    /\ UNCHANGED frameVars
    /\ UNCHANGED dateVars

\* crawl_from_agil_idn raises after the section was visited
FetchFails ==
    /\ pc = "fetch_do"
    /\ FetchFailed
    /\ UNCHANGED <<mainVars, ignore, args_limit, caller, pageUrl, loginPage, result_list, limit,
                   count, ripped, item, searches, crawled, yielded, blocked>>
    /\ UNCHANGED valVars
    /\ frameUrl' \in {frameUrl, "other"}

\* the bundle is kept and the loop goes on without handing the pair over
FetchYieldsEagerly ==
    /\ pc = "fetch_do"
    /\ \E agil \in SiteBundles(result_list[idx]) :
          item' = [idn |-> result_list[idx], agil |-> agil]
    /\ log' = log \cup {Entry("fetched", result_list[idx])}
    /\ yielded' = Append(yielded, result_list[idx])
    /\ idx' = idx + 1
    /\ pc' = "loop"
    /\ UNCHANGED <<mainVars, ignore, args_limit, caller, pageUrl, loginPage, result_list, limit,
                   count, ripped, searches, crawled, dumps, blocked, fatal>>
    /\ UNCHANGED resources
    /\ UNCHANGED valVars
    /\ frameUrl' = "other"
    /\ visit' = NoVisit
    /\ UNCHANGED dateVars

\* crawl_from_agil_idn returns the bundle (its success entry names the idn)
\* and scrape yields the pair
FetchYields ==
    /\ pc = "fetch_do"
    /\ \E agil \in SiteBundles(result_list[idx]) :
          item' = [idn |-> result_list[idx], agil |-> agil]
    /\ log' = log \cup {Entry("fetched", result_list[idx])}
    /\ yielded' = Append(yielded, result_list[idx])
    /\ pc' = "yielded"
    /\ UNCHANGED <<mainVars, ignore, args_limit, caller, pageUrl, loginPage, result_list, limit,
                   idx, count, ripped, searches, crawled, dumps, blocked, fatal>>
    /\ UNCHANGED resources
    /\ UNCHANGED valVars
    /\ frameUrl' = "other"
    /\ visit' = NoVisit
    /\ UNCHANGED dateVars

\* main takes the pair (files, save_files) and asks for the next one; scrape
\* resumes after the yield: ripped, count and the break test
Consume ==
    /\ pc = "yielded"
    /\ files' = Append(files, item)
    /\ cache' = IF save_files THEN cache \cup {item.idn} ELSE cache
    /\ ripped' = ripped \cup {item.idn}
    /\ count' = count + 1
    /\ item' = NoItem
    /\ IF LimitReached(count', limit)
       THEN pc' = "loop_end" /\ UNCHANGED idx
       ELSE pc' = "loop" /\ idx' = idx + 1
    /\ UNCHANGED <<save_files, ignores, pidx, models, db, tx, mcount, ignore,
                   args_limit, caller,
                   pageUrl, loginPage, result_list, limit, searches, crawled,
                   yielded, dumps, blocked, fatal, log, listingVars>>
    /\ UNCHANGED resources
    /\ UNCHANGED valVars
    /\ UNCHANGED frameVars
    /\ UNCHANGED dateVars

\* the end of scrape: the warning and the count of listings extracted
ScrapeFinish ==
    /\ pc = "loop_end"
    /\ log' = log \cup {Entry("extracted", Cardinality(ripped))}
                  \cup (IF Cardinality(ripped) < limit
                        THEN {Entry("not_all_extracted", 0)} ELSE {})
    /\ resources' = Crawler_del(resources)
    /\ pc' = "after_scrape"
    /\ UNCHANGED <<scrapeVars, parseVars>>
    /\ UNCHANGED valVars
    /\ UNCHANGED frameVars
    /\ UNCHANGED dateVars

RECURSIVE Sorted(_)
Sorted(S) ==
    IF S = {} THEN <<>>
    ELSE LET least == CHOOSE x \in S : \A y \in S : x <= y
         IN <<least>> \o Sorted(S \ {least})

\* main: nothing scraped, so load_files reads the cache; next() on a folder
\* without provider listing or selected modal raises StopIteration
LoadFiles ==
    /\ pc = "after_scrape"
    /\ files = <<>>
    /\ \/ /\ \E held \in [cache -> SiteContents] :
                files' = [i \in 1..Cardinality(cache) |->
                            [idn |-> Sorted(cache)[i],
                             agil |-> SiteBundle(Sorted(cache)[i], held[Sorted(cache)[i]])]]
          /\ pc' = "loaded"
       \/ /\ cache # {}
          /\ pc' = "crashed"
          /\ UNCHANGED files
    /\ UNCHANGED <<scrapeVars, pidx, models, db, tx, mcount, log>>
    /\ UNCHANGED resources
    /\ UNCHANGED valVars
    /\ UNCHANGED frameVars
    /\ UNCHANGED dateVars

\* main: args.merge decides whether parse runs on files
StartParse ==
    /\ \/ pc = "loaded"
       \/ pc = "after_scrape" /\ files # <<>>
    /\ \E merge \in BOOLEAN :
          pc' = IF merge THEN "parse" ELSE "done"
    /\ UNCHANGED <<scrapeVars, parseVars, log>>
    /\ UNCHANGED resources
    /\ UNCHANGED valVars
    /\ UNCHANGED frameVars
    /\ UNCHANGED dateVars

\* the steps of scrape, with the main loop that consumes its pairs
NextScrape ==
    \/ ScrapeDates \/ ScrapeStart \/ Visit \/ VisitSection \/ VisitNoFrame
    \/ LoginMain \/ LoginMainRaises \/ LoginBlocked \/ LoginEnters \/ LoginRetry
    \/ SearchFails \/ SearchReturns
    \/ LoopSkip \/ LoopCrawl \/ LoopExhausted
    \/ FetchFails \/ FetchYields \/ Consume \/ ScrapeFinish

Next ==
    \/ MainStart
    \/ NextScrape
    \/ LoadFiles \/ StartParse
    \/ NextMerge

\* main after prepare_database and get_ignores, at position start
InitAt(start) ==
    /\ save_files \in BOOLEAN
    /\ cache \in SUBSET Idns
    /\ db \in InitialDbs
    /\ tx = db
    /\ ignores = get_ignores(db, cache)
    /\ ignore = {}
    /\ args_limit = <<>>
    /\ caller = None
    /\ pageUrl = "blank"
    /\ loginPage = None
    /\ result_list = <<>>
    /\ limit = 0
    /\ idx = 1
    /\ count = 0
    /\ ripped = {}
    /\ item = NoItem
    /\ files = <<>>
    /\ searches = 0
    /\ crawled = <<>>
    /\ yielded = <<>>
    /\ dumps = 0
    /\ blocked = FALSE
    /\ fatal = FALSE
    /\ pidx = 1
    /\ models = NoModels
    /\ mcount = 0
    /\ log = {}
    /\ resources = NoResources
    /\ page = NoPage
    /\ link = 1
    /\ posts = <<>>
    /\ modal_contents = <<>>
    /\ selected_modal_content = None
    /\ provider_listing = <<>>
    /\ bo_screen = None
    /\ bo_pdf = None
    /\ frameUrl = "none"
    /\ visit = NoVisit
    /\ args_dates = NoDates
    /\ date_from = <<>>
    /\ date_until = <<>>
    /\ call = NoCall
    /\ ret = NoRet
    /\ again = NoRet
    /\ pc = start

Init == InitAt("main")

\* a run of main
Spec == Init /\ [][Next]_vars

\* a call of scrape with main consuming it; the process keeps running while
\* it has a step to take
InitScrape == InitAt("scrape")

SpecScrape == InitScrape /\ [][NextScrape]_vars /\ WF_vars(NextScrape)

\* scrape up to the result of its search: the crawler, the first visit of
\* the section with its login, and the search
NextSearch ==
    \/ ScrapeDates \/ ScrapeStart \/ Visit \/ VisitSection \/ VisitNoFrame
    \/ LoginMain \/ LoginMainRaises \/ LoginBlocked \/ LoginEnters \/ LoginRetry
    \/ SearchFails \/ SearchReturns

SpecSearch == InitScrape /\ [][NextSearch]_vars /\ WF_vars(NextSearch)

\* a run of main with --scrape and --no-save-files on an empty cache: scrape,
\* then parse on what it yielded
NextRun == NextScrape \/ StartParse \/ NextMerge

InitRun == InitScrape /\ ~save_files /\ cache = {}

SpecRun == InitRun /\ [][NextRun]_vars

(* ---------------------------------------------------------------------- *)
(* MerPubCrawler.crawl_from_agil_idn on the detail page of a listing, and  *)
(* the parsing of the bundle it returns                                    *)
(* ---------------------------------------------------------------------- *)
\* ID texts of the total rows of the provider listing, and of gvSeleccionado
ApplicantTexts == {"11.111.111-1", "22222222-2"}
SelectedTexts == {"11111111-1", "22.222.222-2"}

\* a "Ver detalle" button of GvProvider: without data-qs2, or with it and
\* the response its POST gets
LinkKinds == {"noid", "ok", "fail"}

\* response.ok is ignored and every response kept
ResponseAlwaysKept(kind) == TRUE
\* response.ok
ResponseOk(kind) == kind = "ok"

SeqsUpTo(S, n) == UNION {[1..k -> S] : k \in 0..n}

\* the rows of quote i of the sheet: the total row, with "Orden" 0, and one
\* row per line quoted; every row carries the ID of the provider, the
\* currency, a unit price and the total of the quote
QuoteRows(i, rut, lines) ==
    [k \in 1..(lines + 1) |->
        [i |-> i, j |-> k - 1, organization_rut |-> rut, sum_currency |-> "$",
         sum_per_unit |-> 10 * i + (k - 1), sum_total |-> 100 * i]]

RECURSIVE ConcatAll(_)
ConcatAll(seqs) == IF seqs = <<>> THEN <<>> ELSE Head(seqs) \o ConcatAll(Tail(seqs))

\* a provider quotes any number of the lines of the listing, or one more
MaxLines == Len(ProductRows) + 1

\* the sheet of the providers in ruts, each quoting the same number of lines,
\* or the first of them one line less
ProviderListing(ruts, lines, short) ==
    ConcatAll([i \in DOMAIN ruts |->
                 QuoteRows(i, ruts[i], IF short /\ i = 1 THEN lines - 1 ELSE lines)])

ProviderListings ==
    UNION {{ProviderListing(ruts, lines, short) :
                short \in IF lines = 0 THEN {FALSE} ELSE BOOLEAN} :
            ruts \in SeqsUpTo(ApplicantTexts, MaxProviders) \ {<<>>},
            lines \in 0..MaxLines}

\* #lnkOrdenCompra: not on the page, on it with the class disabled, or
\* on it and enabled
OrderLinks == {"none", "disabled", "enabled"}

\* the class disabled of the link is not looked at
OrderLinkShown(order) == order # "none"
\* locator("#lnkOrdenCompra:not(.disabled)").count()
OrderEnabled(order) == order = "enabled"

\* the detail page: #hdnIdSolicitud, #lnkDownloadExcel with the rows of
\* the sheet it downloads, the buttons of #GvProvider, and #gvSeleccionado
\* with its ID text and the response the POST of its button gets; a page
\* without #hdnIdSolicitud shows no grid and no selected provider
GridPages ==
    {[open |-> TRUE, hidden_id |-> TRUE, download |-> d, links |-> l,
      selected |-> sel, selected_rut |-> IF sel = None THEN None ELSE t] :
        d \in {<<>>} \cup {<<table>> : table \in ProviderListings},
        l \in SeqsUpTo(LinkKinds, MaxProviders),
        sel \in {None, "ok", "fail"},
        t \in SelectedTexts}
    \cup {[open |-> TRUE, hidden_id |-> FALSE, download |-> d, links |-> <<>>,
           selected |-> None, selected_rut |-> None] :
            d \in {<<>>} \cup {<<table>> : table \in ProviderListings}}

\* the downloads a page can leave without a path: the one of the sheet, the
\* one of the PDF of the buying order
Unfinished(download, order) ==
    {None} \cup (IF download # <<>> THEN {"listing"} ELSE {})
           \cup (IF OrderEnabled(order) THEN {"order"} ELSE {})

\* the detail page with #lnkOrdenCompra, and the download that ends without
\* a path (download_info.value.path() is None)
DetailPage(g, order, unfinished) ==
    [open |-> TRUE, hidden_id |-> g.hidden_id, download |-> g.download,
     links |-> g.links, selected |-> g.selected, selected_rut |-> g.selected_rut,
     order |-> order, unfinished |-> unfinished]

\* elements of the main document one of which may be missing
RequiredFields == {"title", "published_at", "closed_at", "sum_amount", "rut"}

\* other elements of the main document one of which may be missing
OtherFields == {"sum_currency", "email"}

\* self.f.content(): the main document of listing 1
Document(missing, status, rut, currency) ==
    [Detail(1, IF missing = "title" THEN None ELSE "t1", status,
            IF missing = "rut" THEN None ELSE rut, "n1")
        EXCEPT !.published_at = IF missing = "published_at" THEN None ELSE @,
               !.closed_at = IF missing = "closed_at" THEN None ELSE @,
               !.sum_currency = IF missing = "sum_currency" THEN None ELSE currency,
               !.sum_amount = IF missing = "sum_amount" THEN None ELSE @,
               !.email = IF missing = "email" THEN Absent ELSE @]

\* the document of an open listing in pesos of organisation 22222222-2
PlainDocument == Document(None, "Publicada", "22222222-2", "$")

\* the documents of the model: the plain document, and the documents that
\* differ from it in a missing element, in status and organisation ID, or
\* in currency
Documents ==
    {Document(missing, "Publicada", "22222222-2", "$") :
        missing \in RequiredFields \cup OtherFields \cup {None}}
    \cup {Document(None, status, rut, "$") : status \in StatusTexts, rut \in Ruts}
    \cup {Document(None, "Publicada", "22222222-2", currency) :
            currency \in CurrencyTexts}

\* html = self.f.content(): the pages with #lnkOrdenCompra hold the plain
\* document
DocumentsOf(p) == IF p.order = "none" THEN Documents ELSE {PlainDocument}

listingRest ==
    <<save_files, ignores, ignore, args_limit, cache, caller, pageUrl, loginPage,
      result_list, limit, idx, count, ripped, searches, crawled, yielded, dumps,
      blocked, fatal, pidx, models, db, tx, mcount, log, resources>>

\* #lnkDownloadExcel: the sheet is downloaded when the link is on the page,
\* and provider_listing is None when it is not
DownloadListing ==
    /\ pc = "provider_listing"
    /\ page.unfinished # "listing"
    /\ provider_listing' = page.download
    /\ pc' = "buying_order"
    /\ UNCHANGED <<listingRest, page, link, posts, modal_contents,
                   selected_modal_content, bo_screen, bo_pdf, item, files>>
    /\ UNCHANGED valVars
    /\ UNCHANGED frameVars
    /\ UNCHANGED dateVars

\* #lnkDownloadExcel: the download has no path, "La descarga no se termino"
DownloadUnfinished ==
    /\ pc = "provider_listing"
    /\ page.unfinished = "listing"
    /\ FetchFailed
    /\ UNCHANGED <<mainVars, ignore, args_limit, caller, pageUrl, loginPage, result_list,
                   limit, count, ripped, item, searches, crawled, yielded, blocked>>
    /\ UNCHANGED valVars
    /\ UNCHANGED frameUrl

\* #lnkOrdenCompra:not(.disabled): the snapshot of the popup and its PDF are
\* taken when the link is on the page and enabled, and both are None when
\* it is not
BuyingOrder ==
    /\ pc = "buying_order"
    /\ ~(OrderEnabled(page.order) /\ page.unfinished = "order")
    /\ bo_screen' = IF OrderEnabled(page.order) THEN "screen" ELSE None
    /\ bo_pdf' = IF OrderEnabled(page.order) THEN "pdf" ELSE None
    /\ pc' = "modal_links"
    /\ UNCHANGED <<listingRest, page, link, posts, modal_contents,
                   selected_modal_content, provider_listing, item, files>>
    /\ UNCHANGED valVars
    /\ UNCHANGED frameVars
    /\ UNCHANGED dateVars

\* #lnkOrdenCompra: the snapshot is taken and the download of the PDF has
\* no path
BuyingOrderUnfinished ==
    /\ pc = "buying_order"
    /\ OrderEnabled(page.order) /\ page.unfinished = "order"
    /\ bo_screen' = "screen"
    /\ FetchFailed
    /\ UNCHANGED <<save_files, ignores, cache, files, pidx, models, db, tx, mcount,
                   page, link, posts, modal_contents, selected_modal_content,
                   provider_listing, bo_pdf,
                   ignore, args_limit, caller, pageUrl, loginPage, result_list,
                   limit, count, ripped, item, searches, crawled, yielded, blocked>>
    /\ UNCHANGED valVars
    /\ UNCHANGED frameUrl

\* the loop over modal_links: a button with data-qs2 is POSTed once, and
\* response.text() appended when response.ok
PostModal ==
    /\ pc = "modal_links"
    /\ page.hidden_id
    /\ link <= Len(page.links)
    /\ page.links[link] # "noid"
    /\ posts' = Append(posts, link)
    /\ modal_contents' =
          IF ResponseOk(page.links[link]) THEN Append(modal_contents, link)
          ELSE modal_contents
    /\ link' = link + 1
    /\ UNCHANGED <<listingRest, page, selected_modal_content, orderVars, item, files, pc>>
    /\ UNCHANGED valVars
    /\ UNCHANGED frameVars
    /\ UNCHANGED dateVars

\* the loop over modal_links: a button without data-qs2, continue
SkipLink ==
    /\ pc = "modal_links"
    /\ page.hidden_id
    /\ link <= Len(page.links)
    /\ page.links[link] = "noid"
    /\ link' = link + 1
    /\ UNCHANGED <<listingRest, page, posts, modal_contents, selected_modal_content,
                   orderVars, item, files, pc>>
    /\ UNCHANGED valVars
    /\ UNCHANGED frameVars
    /\ UNCHANGED dateVars

\* no #hdnIdSolicitud, or no button left
ModalLinksEnd ==
    /\ pc = "modal_links"
    /\ ~page.hidden_id \/ link > Len(page.links)
    /\ pc' = IF page.hidden_id THEN "selected_modal" ELSE "contents"
    /\ UNCHANGED <<listingRest, listingVars, item, files>>
    /\ UNCHANGED valVars
    /\ UNCHANGED frameVars
    /\ UNCHANGED dateVars

\* #gvSeleccionado: its button is POSTed and the blob kept when response.ok
SelectedModal ==
    /\ pc = "selected_modal"
    /\ selected_modal_content' =
          IF page.selected # None /\ ResponseOk(page.selected) THEN "selected" ELSE None
    /\ pc' = "contents"
    /\ UNCHANGED <<listingRest, page, link, posts, modal_contents, orderVars, item, files>>
    /\ UNCHANGED valVars
    /\ UNCHANGED frameVars
    /\ UNCHANGED dateVars

\* return AgilCrawlContents(html, modal_contents, selected_modal_content,
\* provider_listing, ...); scrape yields it and main keeps it in files
ReturnContents ==
    /\ pc = "contents"
    /\ \E document \in DocumentsOf(page) :
          LET agil == [document
                          EXCEPT !.selected_rut = page.selected_rut,
                                 !.modals = modal_contents,
                                 !.modal_selected = selected_modal_content,
                                 !.provider_listing = provider_listing,
                                 !.bo_pdf = bo_pdf,
                                 !.bo_screen = bo_screen]
          IN /\ item' = [idn |-> 1, agil |-> agil]
             /\ files' = <<[idn |-> 1, agil |-> agil]>>
    /\ pc' = "parse"
    /\ UNCHANGED <<listingRest, listingVars>>
    /\ UNCHANGED valVars
    /\ UNCHANGED frameVars
    /\ UNCHANGED dateVars

NextListing ==
    \/ DownloadListing \/ DownloadUnfinished \/ BuyingOrder \/ BuyingOrderUnfinished
    \/ PostModal \/ SkipLink \/ ModalLinksEnd \/ SelectedModal \/ ReturnContents
    \/ ParseListing \/ MergeListing \/ CommitListing \/ ParseEnd

InitListing ==
    /\ save_files = FALSE
    /\ ignores = {}
    /\ ignore = {}
    /\ args_limit = <<>>
    /\ cache = {}
    /\ caller = "fetch"
    /\ pageUrl = "portal"
    /\ loginPage = None
    /\ result_list = <<1>>
    /\ limit = 1
    /\ idx = 1
    /\ count = 0
    /\ ripped = {}
    /\ item = NoItem
    /\ files = <<>>
    /\ searches = 1
    /\ crawled = <<1>>
    /\ yielded = <<>>
    /\ dumps = 0
    /\ blocked = FALSE
    /\ fatal = FALSE
    /\ pidx = 1
    /\ models = NoModels
    /\ db = EmptyDb
    /\ tx = db
    /\ mcount = 0
    /\ log = {}
    /\ resources = Crawler_init(None)
    /\ \E g \in GridPages, order \in OrderLinks :
          \E unfinished \in Unfinished(g.download, order) :
              page = DetailPage(g, order, unfinished)
    /\ link = 1
    /\ posts = <<>>
    /\ modal_contents = <<>>
    /\ selected_modal_content = None
    /\ provider_listing = <<>>
    /\ bo_screen = None
    /\ bo_pdf = None
    /\ frameUrl = "other"
    /\ visit = NoVisit
    /\ args_dates = NoDates
    /\ date_from = <<>>
    /\ date_until = <<>>
    /\ call = NoCall
    /\ ret = NoRet
    /\ again = NoRet
    /\ pc = "provider_listing"

\* the retrieval of one listing on its detail page, and parse on what it
\* returned
SpecListing == InitListing /\ [][NextListing]_vars

(* ---------------------------------------------------------------------- *)
(* Calls of the validators                                                 *)
(* ---------------------------------------------------------------------- *)
valRest == <<scrapeVars, parseVars, log, resources, frameVars, dateVars>>

\* rut_last_digit(arg)
CallRutLastDigit ==
    /\ pc = "val_call"
    /\ call.fn = "rut_last_digit"
    /\ ret' = Returned(<<rut_last_digit(call.arg)>>)
    /\ pc' = "val_ret"
    /\ UNCHANGED <<valRest, call, again>>

\* validate_rut(arg, lenient, dotted=dotted)
CallValidateRut ==
    /\ pc = "val_call"
    /\ call.fn = "validate_rut"
    /\ ret' = validate_rut_str(call.arg, call.lenient, call.dotted)
    /\ pc' = "val_ret"
    /\ UNCHANGED <<valRest, call, again>>

\* validate_rut on the ID a call of validate_rut returned
CallValidateRutAgain ==
    /\ pc = "val_ret"
    /\ call.fn = "validate_rut"
    /\ ret.kind = "ok"
    /\ again' = validate_rut_str(ret.value, call.lenient, call.dotted)
    /\ pc' = "val_again"
    /\ UNCHANGED <<valRest, call, ret>>

\* validate_rut on the body of the ID a call of validate_rut returned: the
\* ID without its hyphen and check character
CallValidateRutOnBody ==
    /\ pc = "val_ret"
    /\ call.fn = "validate_rut"
    /\ ret.kind = "ok"
    /\ again' = validate_rut_str(SubSeq(ret.value, 1, Len(ret.value) - 2),
                                 call.lenient, call.dotted)
    /\ pc' = "val_body"
    /\ UNCHANGED <<valRest, call, ret>>

\* validate_email_address(arg, lenient)
CallValidateEmailAddress ==
    /\ pc = "val_call"
    /\ call.fn = "validate_email_address"
    /\ ret' = validate_email_address(call.arg, call.lenient)
    /\ pc' = "val_ret"
    /\ UNCHANGED <<valRest, call, again>>

\* normalize_full_name(arg)
CallNormalizeFullName ==
    /\ pc = "val_call"
    /\ call.fn = "normalize_full_name"
    /\ ret' = normalize_full_name(call.arg)
    /\ pc' = "val_ret"
    /\ UNCHANGED <<valRest, call, again>>

\* money_from_compound(currency, arg)
CallMoneyFromCompound ==
    /\ pc = "val_call"
    /\ call.fn = "money_from_compound"
    /\ ret' = money_from_compound_str(call.currency, call.arg)
    /\ pc' = "val_ret"
    /\ UNCHANGED <<valRest, call, again>>

NextValidators ==
    \/ CallRutLastDigit \/ CallValidateRut \/ CallValidateRutAgain
    \/ CallValidateRutOnBody \/ CallValidateEmailAddress \/ CallNormalizeFullName
    \/ CallMoneyFromCompound

InitValidators ==
    /\ save_files = FALSE
    /\ ignores = {}
    /\ ignore = {}
    /\ args_limit = <<>>
    /\ cache = {}
    /\ caller = None
    /\ pageUrl = "blank"
    /\ loginPage = None
    /\ result_list = <<>>
    /\ limit = 0
    /\ idx = 1
    /\ count = 0
    /\ ripped = {}
    /\ item = NoItem
    /\ files = <<>>
    /\ searches = 0
    /\ crawled = <<>>
    /\ yielded = <<>>
    /\ dumps = 0
    /\ blocked = FALSE
    /\ fatal = FALSE
    /\ pidx = 1
    /\ models = NoModels
    /\ db = EmptyDb
    /\ tx = db
    /\ mcount = 0
    /\ log = {}
    /\ resources = NoResources
    /\ page = NoPage
    /\ link = 1
    /\ posts = <<>>
    /\ modal_contents = <<>>
    /\ selected_modal_content = None
    /\ provider_listing = <<>>
    /\ bo_screen = None
    /\ bo_pdf = None
    /\ frameUrl = "none"
    /\ visit = NoVisit
    /\ args_dates = NoDates
    /\ date_from = <<>>
    /\ date_until = <<>>
    /\ \/ \E n \in 0..MaxRutDigits : \E t \in [1..n -> BodyChars] :
             call = Call("rut_last_digit", t, FALSE, FALSE)
       \/ \E t \in SeqsOfLen(DigitChars, 1, 2) :
             call = Call("rut_last_digit", t, FALSE, FALSE)
       \/ \E n \in RutLengths : \E body \in [1..n -> BodyChars] :
             \E t \in RutTextsOf(body), lenient \in BOOLEAN, dotted \in BOOLEAN :
                call = Call("validate_rut", t, lenient, dotted)
       \/ \E t \in OtherRutTexts, lenient \in BOOLEAN, dotted \in BOOLEAN :
             call = Call("validate_rut", t, lenient, dotted)
       \/ \E n \in 0..MaxEmailLen : \E t \in [1..n -> EmailChars] :
             \E lenient \in BOOLEAN :
                call = Call("validate_email_address", t, lenient, FALSE)
       \/ \E lenient \in BOOLEAN :
             call = Call("validate_email_address", Absent, lenient, FALSE)
       \/ \E n \in 0..MaxWords : \E t \in [1..n -> NameWords] :
             call = Call("normalize_full_name", t, FALSE, FALSE)
       \/ call = Call("normalize_full_name", Absent, FALSE, FALSE)
       \/ \E n \in 0..MaxAmountLen : \E t \in [1..n -> AmountChars] :
             \E currency \in CurrencyStrs : call = MoneyCall(currency, t)
       \/ \E t \in {GroupedAmount, Absent}, currency \in CurrencyStrs :
             call = MoneyCall(currency, t)
    /\ ret = NoRet
    /\ again = NoRet
    /\ pc = "val_call"

\* one call of a validator on one text, and a second call on its result
SpecValidators == InitValidators /\ [][NextValidators]_vars

(* ====================================================================== *)
(* Properties                                                              *)
(* ====================================================================== *)
ErrorEvents == {"parse_error", "merge_error"}

\* the listing at position i of files went through merge and commit
MergedOk(i) ==
    /\ i \in DOMAIN files
    /\ i < pidx
    /\ \A ev \in ErrorEvents : Entry(ev, files[i].idn) \notin log

OneRowPerCode(table) ==
    \A i, j \in DOMAIN table : table[i].code = table[j].code => i = j

OneRowPerRut(table) ==
    \A i, j \in DOMAIN table : table[i].rut = table[j].rut => i = j

OneRowPerIdn(table) ==
    \A i, j \in DOMAIN table : table[i].idn = table[j].idn => i = j

\* the commit of a listing whose bundle is the one of the listing before it,
\* both merged and committed
SecondMergeOfSameGraph ==
    /\ pc = "commit"
    /\ pidx >= 2
    /\ files[pidx].agil = files[pidx - 1].agil
    /\ MergedOk(pidx - 1)
    /\ mcount' = mcount + 1

\* C1: merging the same parsed graph twice in succession (merge and commit
\* both times) leaves at most one ProductType row per code, one Organization
\* row per ID and one Currency row per code, and the second merge leaves the
\* number of Bid rows as it was after the first.
C1_MergeIdempotent ==
    [][SecondMergeOfSameGraph =>
         /\ Len(db'.bid) = Len(db.bid)
         /\ OneRowPerCode(db'.product_type)
         /\ OneRowPerRut(db'.organization)
         /\ OneRowPerCode(db'.currency)]_vars

C1_Witness ==
    /\ pc = "parse"
    /\ pidx = 3
    /\ files[1].agil = files[2].agil
    /\ MergedOk(1) /\ MergedOk(2)
    /\ mcount = 2
    /\ \E i \in DOMAIN db.bid : db.bid[i].idn = files[2].agil.idn
    /\ Len(db.product_type) = 1

\* C2: whatever merges happen, successful or failed, the store holds at most
\* one Bid per idn, no stored Bid is changed or removed by a later merge, and
\* the Bid stored for an idn that was absent is the one of the graph merged.
C2_BidInsertedOnce ==
    [][/\ \A i \in DOMAIN db.bid : i \in DOMAIN db'.bid /\ db'.bid[i] = db.bid[i]
       /\ OneRowPerIdn(db'.bid)
       /\ (pc = "commit" /\ mcount' = mcount + 1
             /\ \A i \in DOMAIN db.bid : db.bid[i].idn # models.bid.idn)
          => \E i \in DOMAIN db'.bid : db'.bid[i] = models.bid]_vars

\* a listing with a stored idn and another title was merged and committed,
\* and the store still holds the first title
C2_Witness ==
    \E k \in DOMAIN files :
        /\ MergedOk(k)
        /\ parse_agil_into_db_model(files[k].agil).ok
        /\ \E i \in DOMAIN db.bid :
              /\ db.bid[i].idn = files[k].agil.idn
              /\ db.bid[i].title # files[k].agil.title

\* a step of parse that logs the failure of a listing
ListingFails ==
    \E e \in log' \ log : e.ev \in ErrorEvents

\* C3: a listing whose parsing, merge or commit fails leaves the committed
\* store as it was and nothing pending in the session, and parse goes on with
\* the next listing; no pending change is carried from one listing to the next.
C3_ListingAtomic ==
    [][/\ ListingFails =>
            /\ db' = db
            /\ tx' = db
            /\ pidx' = pidx + 1
            /\ pc' = "parse"
       /\ pc' = "parse" => tx' = db']_vars

\* a listing failed at commit and a later one was merged and committed
C3_Witness ==
    \E k, m \in DOMAIN files :
        /\ k < m
        /\ Entry("merge_error", files[k].idn) \in log
        /\ MergedOk(m)
        /\ parse_agil_into_db_model(files[m].agil).ok
        /\ \E i \in DOMAIN db.bid : db.bid[i].idn = files[m].agil.idn
        /\ \A i \in DOMAIN db.bid : db.bid[i].idn # files[k].agil.idn

RECURSIVE IsSubsequence(_, _)
IsSubsequence(a, b) ==
    IF a = <<>> THEN TRUE
    ELSE IF b = <<>> THEN FALSE
    ELSE IF Head(a) = Head(b) THEN IsSubsequence(Tail(a), Tail(b))
    ELSE IsSubsequence(a, Tail(b))

NoRepeat(seq) == \A i, j \in DOMAIN seq : seq[i] = seq[j] => i = j

Elems(seq) == {seq[i] : i \in DOMAIN seq}

\* scrape is past its search
LoopPcs == {"loop", "fetch_do", "yielded", "loop_end"}

\* C4: one run of scrape performs one search (none when the crawler cannot
\* be created), and the idns it retrieves, and the idns it yields, are a
\* subsequence of the search result in its order, none of them in the
\* skip-set and none of them twice.
C4_OneSearchInOrder ==
    /\ searches <= 1
    /\ (pc \in LoopPcs \/ crawled # <<>>) => searches = 1
    /\ IsSubsequence(crawled, result_list)
    /\ IsSubsequence(yielded, crawled)
    /\ Elems(crawled) \cap ignore = {}
    /\ NoRepeat(crawled)
    /\ NoRepeat(yielded)

C4_Witness ==
    /\ pc = "after_scrape"
    /\ Len(result_list) = 2
    /\ Len(crawled) = 2
    /\ yielded = <<result_list[2]>>

\* a retrieval of crawl_from_agil_idn is in progress
Retrieving ==
    caller = "fetch" /\ pc \in {"visit", "login_main", "login_wait", "section", "fetch_do"}

\* C5: limit is the effective cap (each skip takes one off it), no retrieval
\* starts once the pairs yielded are as many as the effective cap or more, and
\* the pairs yielded at the end are at most the effective cap.
C5_EffectiveCapRespected ==
    /\ Retrieving => Len(yielded) < limit
    /\ pc = "after_scrape" /\ ~fatal => Len(yielded) <= limit

\* C6: with a cap c >= 1, scrape yields at most c pairs.
C6_AtMostCapYielded ==
    (args_limit # <<>> /\ args_limit[1] >= 1) => Len(yielded) <= args_limit[1]

\* the cap of one stopped the loop after the first yield, with a second idn
\* of the search result never retrieved
C6_Witness ==
    /\ pc = "after_scrape"
    /\ args_limit = <<1>>
    /\ Len(result_list) = 2
    /\ Len(yielded) = 1
    /\ Len(crawled) = 1
    /\ ignore = {}

\* the handler of the scrape loop logs a failed retrieval in this step
RetrievalFails ==
    \E e \in log' \ log : e.ev = "fetch_error"

C8_FatalAbortsRun ==
    fatal =>
        /\ crawled = <<>>
        /\ yielded = <<>>
        /\ pc \notin {"merge", "commit"}
        /\ mcount = 0
        /\ \A e \in log : e.ev \notin ErrorEvents

\* C9: once a login attempt has found the blocked-account indicator, the run
\* starts no further login attempt and no further retrieval.
C9_BlockedIsFatal ==
    [][blocked =>
         /\ crawled' = crawled
         /\ ~(pc # "login_main" /\ pc' = "login_main")]_vars

LoginPcs == {"login_main", "login_wait"}

\* C10: a login that has started ends, entering the portal or raising.
C10_LoginTerminates ==
    (pc \in LoginPcs) ~> (pc \notin LoginPcs)

\* C10, amended: every login attempt ends within its bounded wait, by
\* entering the portal, by raising, or by starting the next attempt.
C10_LoginAttemptEnds ==
    /\ (pc = "login_wait") ~> (pc # "login_wait")
    /\ (pc = "login_main") ~> (pc # "login_main")

\* an attempt that timed out was followed by a new one
C10_Witness ==
    /\ pc = "login_wait"
    /\ Entry("login_retry", 0) \in log

(* ---------------------------------------------------------------------- *)
(* The bundle of one listing and its parsing                               *)
(* ---------------------------------------------------------------------- *)
\* parse_agil_into_db_model returned the graph of the bundle retrieved
Parsed == pc = "merge" /\ files # <<>> /\ models.ok

\* C11: a bundle whose provider listing forms N groups and that holds M
\* modal blobs is parsed into a graph only when N = M, and the graph then
\* holds one application per group; with N # M, M = 0 included, parsing fails.
C11_GroupCountMismatchFails ==
    (Parsed /\ files[1].agil.provider_listing # <<>>) =>
        /\ Len(Groups(files[1].agil)) = Len(files[1].agil.modals)
        /\ Len(models.applications) = Len(Groups(files[1].agil))

\* C12: the acceptance flag of every application is None when the page shows
\* no selected provider, and with a selected provider it is "True" for the
\* applications whose normalised ID is the normalised ID of the selected
\* provider and "False" for the others.
C12_AcceptanceTriState ==
    Parsed =>
        \A i \in DOMAIN models.applications :
            models.applications[i].accepted =
                IF page.selected = None THEN None
                ELSE IF validate_rut(Groups(files[1].agil)[i], FALSE)
                          = validate_rut(page.selected_rut, FALSE)
                     THEN "True" ELSE "False"

\* C13: the Bid of a parsed graph has a status: a status text outside the
\* mapping of str_to_bid_status makes parsing fail.
C13_UnknownStatusFailsParse ==
    Parsed => models.bid.status # None

\* C14: the Bid of a parsed graph comes from a document that holds its title,
\* its timestamps, its total amount and its organization ID: a missing one
\* makes parsing fail.
C14_MissingFieldFailsParse ==
    Parsed =>
        /\ files[1].agil.title # None
        /\ models.bid.title # None
        /\ files[1].agil.published_at # None
        /\ files[1].agil.closed_at # None
        /\ files[1].agil.sum_amount # None
        /\ files[1].agil.rut # None

\* crawl_from_agil_idn is past the loop over modal_links
AfterModalLinks == {"selected_modal", "contents", "parse", "merge", "commit", "done"}

\* the rows at positions below n whose kind is in kinds, in grid order
RECURSIVE RowsOfKind(_, _, _)
RowsOfKind(links, n, kinds) ==
    IF n = 0 THEN <<>>
    ELSE IF links[n] \in kinds
         THEN Append(RowsOfKind(links, n - 1, kinds), n)
         ELSE RowsOfKind(links, n - 1, kinds)

\* C15: in one retrieval no grid row is POSTed twice, the modal list is the
\* rows answered with success so far, in grid order (so never longer than the
\* grid), and a non-success response does not end the retrieval: once the
\* loop is over the rows POSTed are all the rows with an id and the modal
\* list all the rows answered with success.
C15_ModalsAreSuccessfulRows ==
    /\ NoRepeat(posts)
    /\ IsSubsequence(modal_contents, posts)
    /\ Len(modal_contents) <= Len(page.links)
    /\ page.hidden_id =>
          /\ posts = RowsOfKind(page.links, link - 1, {"ok", "fail"})
          /\ modal_contents = RowsOfKind(page.links, link - 1, {"ok"})
    /\ (pc \in AfterModalLinks /\ page.hidden_id) => link = Len(page.links) + 1

\* a row answered with a non-success response was followed by one answered
\* with success, and the bundle was returned with the blob of the second
C15_Witness ==
    /\ pc = "parse"
    /\ files # <<>>
    /\ page.links = <<"fail", "ok">>
    /\ posts = <<1, 2>>
    /\ files[1].agil.modals = <<2>>

(* ---------------------------------------------------------------------- *)
(* Runs: what is retrieved, reported and released                          *)
(* ---------------------------------------------------------------------- *)
\* C16: a listing stored as a Bid when the run starts is not retrieved in
\* that run (and so not parsed again).
C16_StoredBidNotRetrieved ==
    \A i \in DOMAIN crawled : crawled[i] \notin BidIdns(db)

\* parse went over every pair of a run that scraped
RunMerged == pc = "done" /\ files # <<>> /\ pidx > Len(files)

WarningEvents == {"not_all_extracted"}

\* C17: at the end of a run that reached the merge phase, a warning is in the
\* log if fewer listings were merged than were expected to be extracted.
C17_WarnsWhenFewerMerged ==
    RunMerged =>
        \A e \in log :
            (e.ev = "expected" /\ mcount < e.idn) => \E w \in log : w.ev \in WarningEvents

\* log entries whose idn field names a listing
NamingEvents == {"skip", "fetch_error", "fetched", "parse_error", "merge_error"}

Named(idn) == \E e \in log : e.ev \in NamingEvents /\ e.idn = idn

\* the Bid parsed from pair k of files is in the store
BidWritten(k) ==
    \E i \in DOMAIN db.bid : db.bid[i] = parse_agil_into_db_model(files[k].agil).bid

\* C18: every idn that was skipped, whose retrieval failed, whose parsing
\* failed, whose merge failed, or that was retrieved and went through parse
\* without its Bid data being written (its idn being stored already
\* included) is named by a log entry.
C18_NoSilentDrop ==
    /\ \A i \in DOMAIN result_list :
          (i < idx /\ result_list[i] \in ignore) => Entry("skip", result_list[i]) \in log
    /\ \A i \in DOMAIN crawled :
          (crawled[i] \notin Elems(yielded) /\ ~(Retrieving /\ i = Len(crawled)))
              => Entry("fetch_error", crawled[i]) \in log
    /\ \A k \in DOMAIN files :
          k < pidx =>
              IF ~parse_agil_into_db_model(files[k].agil).ok
              THEN Entry("parse_error", files[k].idn) \in log
              ELSE ~BidWritten(k) => Named(files[k].idn)

\* a stored listing was retrieved again with another title, parsed and
\* merged: the store keeps the first title and nothing failed
C18_Witness ==
    /\ RunMerged
    /\ mcount = 1
    /\ Len(files) = 1
    /\ parse_agil_into_db_model(files[1].agil).ok
    /\ ~BidWritten(1)
    /\ \A e \in log : e.ev \notin ErrorEvents \cup {"fetch_error", "skip"}

\* C19: when scrape is over, by completion or by a fatal failure, nothing of
\* the browser session is left open.
C19_SessionReleased ==
    pc = "after_scrape" => \A r \in DOMAIN resources : resources[r] # "open"

\* C20: a retrieval starts only from the loop with no pair pending: every
\* idn retrieved before has failed or was yielded, taken by main and counted
\* by the resumed generator; and while a retrieval is in progress it is the
\* one of the current idn and no pair is pending.
C20_OneRetrievalAtATime ==
    /\ [](Retrieving => (item = NoItem /\ crawled[Len(crawled)] = result_list[idx]))
    /\ [][crawled' # crawled =>
            /\ pc = "loop"
            /\ item = NoItem
            /\ Len(files) = Len(yielded)
            /\ \A i \in DOMAIN crawled :
                  crawled[i] \in ripped \/ Entry("fetch_error", crawled[i]) \in log]_vars

\* the second retrieval is in progress after main took the first pair
C20_Witness ==
    /\ Retrieving
    /\ Len(crawled) = 2
    /\ Len(files) = 1
    /\ crawled[1] \in ripped

(* ---------------------------------------------------------------------- *)
(* The validators                                                          *)
(* ---------------------------------------------------------------------- *)
\* the call of fn has returned or raised
ValReturned(fn) == pc = "val_ret" /\ call.fn = fn

\* C21: validate_rut in lenient mode returns an ID or False on every text,
\* None, the empty text and texts without a digit included; in strict mode it
\* returns an ID or raises ValidationError, with the text, "RUT" and a reason,
\* on exactly the texts on which lenient mode returns False.
C21_RutLenientTotalStrictValidationError ==
    ValReturned("validate_rut") =>
        /\ call.lenient => ret.kind \in {"ok", "False"}
        /\ ~call.lenient =>
              /\ ret.kind \in {"ok", "ValidationError"}
              /\ ret.kind = "ValidationError" <=>
                    validate_rut_str(call.arg, TRUE, call.dotted).kind = "False"
        /\ ret.kind = "ValidationError" =>
              /\ ret.parsing = "RUT"
              /\ ret.reason # None
              /\ call.arg # Absent => ret.value = lower(strip(call.arg))

\* C22: validate_rut on an ID it returned returns that ID, with dots and
\* without.
C22_RutNormalisationIdempotent ==
    pc = "val_again" => again = ret

\* a text that is not in normal form was normalised and validated again,
\* with dots
C22_Witness ==
    /\ pc = "val_again"
    /\ call.dotted
    /\ call.arg # ret.value
    /\ again.kind = "ok"

\* C23: validate_rut on the body of a valid ID, without hyphen and check
\* character, returns the ID.
C23_RutBodyRoundTrip ==
    pc = "val_body" => again = ret

\* the weights 2..7, in the order the digits take them from the right
Weights == <<2, 3, 4, 5, 6, 7>>

RECURSIVE SumTo(_, _)
SumTo(f, n) == IF n = 0 THEN 0 ELSE f[n] + SumTo(f, n - 1)

\* the check character of the mod-11 rule for a digit text
Mod11Check(digits) ==
    LET n == Len(digits)
        s == SumTo([i \in 1..n |->
                       Weights[((i - 1) % Len(Weights)) + 1]
                       * DigitValue(digits[n + 1 - i])], n)
        r == 11 - (s % 11)
    IN IF r = 11 THEN "0" ELSE IF r = 10 THEN "k" ELSE DigitStr(r)

Hyphenated(t) ==
    /\ t # Absent
    /\ Len(t) >= 3
    /\ t[Len(t) - 1] = "-"
    /\ \A i \in 1..(Len(t) - 2) : t[i] \in DigitChars \cup {"."}

\* C25: strict validate_rut accepts body-c exactly when c is the check
\* character of body, whatever its case, and body has at least 6 digits; the
\* ID returned then is the body in dotted groups of three, a hyphen and the
\* check character in lower case; and the check character of every ID
\* returned is the computed one of its body.
C25_HyphenatedAcceptedIffCheckMatches ==
    (ValReturned("validate_rut") /\ ~call.lenient) =>
        /\ Hyphenated(call.arg) =>
              LET body == OnlyDigits(SubSeq(call.arg, 1, Len(call.arg) - 2))
                  c == LowerChar(call.arg[Len(call.arg)])
              IN /\ ret.kind = "ok" <=>
                        (c = rut_last_digit(body) /\ Len(body) >= MinRutDigits)
                 /\ (ret.kind = "ok" /\ call.dotted) =>
                        ret.value = Dotted(body) \o <<"-", c>>
        /\ ret.kind = "ok" =>
              ret.value[Len(ret.value)] =
                  rut_last_digit(OnlyDigits(SubSeq(ret.value, 1, Len(ret.value) - 2)))

\* C26: normalize_full_name of "juan de la cruz perez" gives the names
\* "Juan de la Cruz" and the surname "Perez", and of "ana" the name "Ana"
\* without surname.
C26_PrefixJoinedIntoFirstName ==
    ValReturned("normalize_full_name") =>
        /\ call.arg = <<"juan", "de", "la", "cruz", "perez">> =>
              /\ ret.value = <<"Juan", "de", "la", "Cruz">>
              /\ ret.last = <<"Perez">>
        /\ call.arg = <<"ana">> =>
              /\ ret.value = <<"Ana">>
              /\ ret.last = Absent

\* C27: validate_email_address in lenient mode returns an address or False
\* on every text, None, the empty text and blanks included.
C27_EmailLenientNeverRaises ==
    (ValReturned("validate_email_address") /\ call.lenient) =>
        ret.kind \in {"ok", "False"}

(* ---------------------------------------------------------------------- *)
(* The graph of a listing with quotes                                      *)
(* ---------------------------------------------------------------------- *)
\* C28: in the graph parse_agil_into_db_model returns, every application is
\* attached to the Bid of the graph, and the Product of each of its
\* ApplicationProducts is one of the Products of that Bid.
C28_ApplicationProductsOfSameBid ==
    Parsed =>
        \A i \in DOMAIN models.applications :
            /\ models.applications[i].bid_idn = models.bid.idn
            /\ \A k \in DOMAIN models.applications[i].products :
                  LET product == models.applications[i].products[k].product
                  IN /\ \E n \in DOMAIN models.bid.products :
                            models.bid.products[n] = product
                     /\ product.bid_idn = models.bid.idn

\* a graph with two applications, each quoting the two lines of the listing
C28_Witness ==
    /\ Parsed
    /\ Len(models.applications) = 2
    /\ \A i \in DOMAIN models.applications :
          Len(models.applications[i].products) = Len(models.bid.products)

\* the table holds the row, with its values
Holds(table, row) == \E r \in DOMAIN table : table[r] = row

\* C29: once the graph of a listing is merged and committed, the store holds
\* a row with the incoming values for every product type and organization of
\* the graph, and a Currency row for the currency code of its Bid.
C29_ReferenceDataUpserted ==
    \A i \in DOMAIN files :
        (MergedOk(i) /\ i = pidx - 1) =>
            LET graph == parse_agil_into_db_model(files[i].agil)
            IN /\ \A n \in DOMAIN graph.product_types :
                     Holds(db.product_type, graph.product_types[n])
               /\ \A n \in DOMAIN graph.organizations :
                     Holds(db.organization, graph.organizations[n])
               /\ \E r \in DOMAIN db.currency :
                     db.currency[r][CurrencyPK] = graph.bid.sum.currency

\* C30: when a bundle with modals and a provider listing is parsed, the
\* table is cut into consecutive chunks of max("Orden") + 1 rows; there are
\* as many applications as chunks and as modals; application i has the
\* organization and the total of the first row of chunk i, one quote per
\* further row of the chunk (row k with the k-th Product of the Bid), and
\* the submission date and description of modal i.
C30_ApplicationsFollowChunks ==
    (Parsed /\ files[1].agil.modals # <<>> /\ files[1].agil.provider_listing # <<>>) =>
        LET agil == files[1].agil
            table == agil.provider_listing[1]
            size == Max({table[r].j : r \in DOMAIN table}) + 1
            chunks == (Len(table) + size - 1) \div size
            Chunk(i) == SubSeq(table, (i - 1) * size + 1, Min(i * size, Len(table)))
        IN /\ Len(models.applications) = chunks
           /\ Len(agil.modals) = chunks
           /\ \A i \in DOMAIN models.applications :
                 LET application == models.applications[i]
                     total_row == Chunk(i)[1]
                 IN /\ application.rut = validate_rut(total_row.organization_rut, TRUE)
                    /\ application.total_sum =
                          money_from_compound(total_row.sum_currency, total_row.sum_total)
                    /\ Len(application.products) = Len(Chunk(i)) - 1
                    /\ \A k \in DOMAIN application.products :
                          /\ application.products[k].sum =
                                money_from_compound(total_row.sum_currency,
                                                    Chunk(i)[k + 1].sum_per_unit)
                          /\ application.products[k].product = models.bid.products[k]
                    /\ application.sent_at = agil.modals[i]
                    /\ application.summary = agil.modals[i]

\* two providers, the first quoting one line and the second two: the chunks
\* of three rows are not the quotes of the sheet
C30_Witness ==
    /\ Parsed
    /\ files[1].agil.provider_listing # <<>>
    /\ Len(files[1].agil.provider_listing[1]) = 5
    /\ Len(models.applications) = 2
    /\ Len(models.applications[1].products) = 2
    /\ Len(models.applications[2].products) = 1

(* ---------------------------------------------------------------------- *)
(* Merging a listing that is stored, and the keys of organizations         *)
(* ---------------------------------------------------------------------- *)
\* C35: merging a graph whose Bid idn is stored leaves every table of the
\* session as it was: no product type, organization or Bid row is created
\* or modified.
C35_StoredBidMergeIsNoOp ==
    [][(pc = "merge" /\ models.bid.idn \in BidIdns(tx)) => tx' = tx]_vars

\* two ID strings of one national ID
SameNationalId(a, b) == validate_rut(a, FALSE) = validate_rut(b, FALSE)

\* C37: the Organization records of a graph that stand for one national ID,
\* as the owner of the Bid or as an applicant, carry the same key string.
C37_OneKeyPerNationalId ==
    Parsed =>
        \A i, j \in DOMAIN models.organizations :
            SameNationalId(models.organizations[i].rut, models.organizations[j].rut)
                => models.organizations[i].rut = models.organizations[j].rut

\* scrape is over, by its return or by an exception that left it
ScrapeOver == pc \in {"after_scrape", "crashed"} /\ ~fatal

\* C38: without --limit, when scrape is over every idn of the search result
\* outside the skip-set was retrieved or attempted, and every listing
\* retrieved was yielded.
C38_NoCapRetrievesAll ==
    (args_limit = <<>> /\ ScrapeOver) =>
        /\ \A i \in DOMAIN result_list :
              result_list[i] \notin ignore => result_list[i] \in Elems(crawled)
        /\ \A e \in log : e.ev = "fetched" => e.idn \in Elems(yielded)

(* ---------------------------------------------------------------------- *)
(* A listing retrieved with a modal missing                                *)
(* ---------------------------------------------------------------------- *)
\* a POST of the provider grid got a non-success response
SkippedFetch == \E i \in DOMAIN posts : ~ResponseOk(page.links[posts[i]])

\* the bundle as it would be had every POST been answered with success
Unskipped(agil) == [agil EXCEPT !.modals = posts]

\* the graph of the bundle is parsed and its commit goes through
Mergeable(agil) ==
    /\ parse_agil_into_db_model(agil).ok
    /\ ~FlushFails(merge_agil_models_into_db(EmptyDb, parse_agil_into_db_model(agil)))

\* C36: a listing retrieved with a provider modal skipped on a non-success
\* response is yielded, and parse merges and commits it as it would have
\* with the modal.
C36_SkippedModalNotFatal ==
    (pc = "done" /\ SkippedFetch /\ Mergeable(Unskipped(files[1].agil))) =>
        /\ MergedOk(1)
        /\ mcount = 1

RECURSIVE NumberOf(_)
NumberOf(digits) ==
    IF digits = <<>> THEN 0
    ELSE DigitValue(Head(digits)) * 10 ^ (Len(digits) - 1) + NumberOf(Tail(digits))

\* the codes of the currency texts other than the glyph
CodeOf(currency) ==
    CASE currency = <<"U", "S", "D">> -> <<"u", "s", "d">>
      [] currency = <<"$", "U">> -> <<"$", "u">>
      [] OTHER -> currency

\* C34: money_from_compound gives "clp" for the glyph "$" and the lowercase
\* form for any other currency text, and for an amount text of digits and
\* grouping dots the whole number its digits write, with no decimal place:
\* ("$", "1.234.567") is 1234567 in clp.
C34_MoneyFromCompound ==
    (ValReturned("money_from_compound") /\ call.currency # Absent /\ call.arg # Absent
        /\ OnlyDigits(call.arg) # <<>>
        /\ \A i \in DOMAIN call.arg : call.arg[i] \in DigitChars \cup {"."}) =>
        /\ ret.kind = "ok"
        /\ ret.value = <<NumberOf(OnlyDigits(call.arg)), 0>>
        /\ ret.currency = IF call.currency = <<"$">> THEN <<"c", "l", "p">>
                          ELSE CodeOf(call.currency)
        /\ (call.currency = <<"$">> /\ call.arg = GroupedAmount) =>
              ret.value = <<1234567, 0>>

\* money_from_compound("$", "1.234.567") returned 1234567 in clp
C34_Witness ==
    /\ ValReturned("money_from_compound")
    /\ call.currency = <<"$">>
    /\ call.arg = GroupedAmount
    /\ ret.kind = "ok"
    /\ ret.value = <<1234567, 0>>
    /\ ret.currency = <<"c", "l", "p">>

\* C32: login_merpub enters the portal only after an attempt that showed no
\* blocked-account indicator and showed the organism selector within the
\* wait; an attempt whose wait ends without the selector is followed by a
\* new attempt from its start and never by entering the portal.
LoginEntered == pc = "login_wait" /\ pageUrl' # "login"

C32_EntersOnlyThroughSelector ==
    [][/\ LoginEntered => loginPage = "picker"
       /\ (pc = "login_wait" /\ loginPage = "nothing")
            => (pc' = "login_main" /\ pageUrl' = "login" /\ dumps' = dumps)]_vars

\* the portal is entered after an attempt that timed out
C32_Witness ==
    /\ pc = "section"
    /\ visit.login
    /\ pageUrl = "portal"
    /\ Entry("login_retry", 0) \in log

\* C33: visit_merpub_section starts a login only when the navigation to the
\* portal lands on the home page, clicks the Agile menu entry only when the
\* frame is not on the Agile search, and with the page on the menu page and
\* the frame on the Agile search it navigates nowhere, starts no login and
\* clicks nothing.
C33_VisitDoesOnlyWhatIsNeeded ==
    [][/\ (pc \notin LoginPcs /\ pc' \in LoginPcs)
            => (pc = "visit" /\ pageUrl # "portal" /\ pageUrl' = "home")
       /\ (visit'.click /\ ~visit.click)
            => (pc = "section" /\ frameUrl # "agil")
       /\ (pc = "visit" /\ pageUrl = "portal" /\ frameUrl = "agil")
            => (pc' = "section" /\ visit' = NoVisit /\ UNCHANGED <<pageUrl, frameUrl>>)
       /\ (pc = "section" /\ frameUrl = "agil")
            => (pc' = Resume(caller) /\ UNCHANGED <<pageUrl, frameVars>>)]_vars

\* a visit that found the menu page and the Agile search did nothing
C33_Witness ==
    /\ pc = "fetch_do"
    /\ visit = NoVisit
    /\ pageUrl = "portal"
    /\ frameUrl = "agil"

\* C39: with --from and --until both given and no day count scrape goes on
\* to the search with exactly that range; a day count given makes the range
\* run from today minus that many days until today.
C39_SearchCoversGivenRange ==
    /\ (args_dates.days_before = <<>> /\ args_dates.from_ # <<>> /\ args_dates.until # <<>>)
         => /\ pc = "scrape_start"
            /\ date_from = args_dates.from_
            /\ date_until = args_dates.until
    /\ args_dates.days_before # <<>>
         => /\ pc = "scrape_start"
            /\ date_from = <<Today - args_dates.days_before[1]>>
            /\ date_until = <<Today>>

====
